---- MODULE Spec2Model ----
(***************************************************************************)
(* Verification model of the response-resolution pipeline of               *)
(* openapi-sample-emulator: the scenario resolver (step and time mode,     *)
(* per-key runtime slots, reset rules), the sample provider that calls it, *)
(* the descriptor loader, the router and the HTTP handler.  For the        *)
(* resolver and the provider, paths and templates are sequences of         *)
(* segments (the result of strings.Split(strings.Trim(p, "/"), "/")); for  *)
(* the router they are sequences of characters.  The resolver's mutex is   *)
(* modelled by making every critical section one atomic action.            *)
(***************************************************************************)
EXTENDS Integers, Sequences, FiniteSets, TLC

(* ------------------------------ bounds -------------------------------- *)
\* entries of the step sequence
SeqLen == 3
\* entries of the timeline
TimeLen == 2
\* resolves per key whose order is followed (more than SeqLen: the wrap)
MaxServed == 4
\* last tick of the clock
MaxNow == 2
\* clock ticks per second
TicksPerSec == 2
\* concurrent request workers
NumProcs == 2

Procs == 1..NumProcs
KeyVals == {"1", "2"}
Methods == {"GET", "DELETE"}

(* ------------------------- string primitives --------------------------- *)
\* strings.ToUpper on the strings that occur in the model
ToUpper(s) ==
    CASE s = "get" -> "GET"
      [] s = "delete" -> "DELETE"
      [] s = "scans" -> "SCANS"
      [] s = "status" -> "STATUS"
      [] s = "results" -> "RESULTS"
      [] s = "api" -> "API"
      [] s = "other" -> "OTHER"
      [] s = "{id}" -> "{ID}"
      [] OTHER -> s

\* strings.TrimSpace on the strings that occur in the model
TrimSpace(s) ==
    CASE s = " delete " -> "delete"
      [] s = " " -> ""
      [] s = " step " -> "step"
      [] s = " get " -> "get"
      [] s = " id " -> "id"
      [] OTHER -> s

\* strings.ToUpper(strings.TrimSpace(tpl)) on a template given by its segments
UpperTpl(tpl) == [i \in DOMAIN tpl |-> ToUpper(TrimSpace(tpl[i]))]

\* strings.Split(strings.Trim(p, "/"), "/"): the empty path splits into one
\* empty segment
SplitPath(p) == IF p = <<>> THEN <<"">> ELSE p

\* strings.HasPrefix(seg, "{") && strings.HasSuffix(seg, "}")
IsParam(seg) == seg \in {"{id}", "{scan_id}"}

\* strings.TrimSuffix(strings.TrimPrefix(seg, "{"), "}")
ParamName(seg) ==
    CASE seg = "{id}" -> "id"
      [] seg = "{scan_id}" -> "scan_id"
      [] OTHER -> seg

(* ------------------------------ templates ------------------------------ *)
TStatus  == <<"scans", "{id}", "status">>
TResults == <<"scans", "{id}", "results">>
TScan    == <<"scans", "{id}">>
TApiScan == <<"api", "scans", "{id}">>

\* the path templates of the served API, as the router knows them
Templates == {TStatus, TResults, TScan, TApiScan}

\* the concrete path of template tpl for key value v
Concrete(tpl, v) == [i \in DOMAIN tpl |-> IF IsParam(tpl[i]) THEN v ELSE tpl[i]]

(* ------------------------ scenario descriptors ------------------------- *)
Sequence ==
    [i \in 1..SeqLen |-> [State |-> <<"state", i>>, File |-> <<"step", i>>]]

\* the timelines of the deployments: "ramp" starts at 0 s and adds an entry
\* every second, "late" has its first entry at 1 s, "flat" has every entry
\* at 0 s
TimelineOf(shape) ==
    [i \in 1..TimeLen |->
        [AfterSec |-> CASE shape = "late" -> i
                        [] shape = "flat" -> 0
                        [] OTHER -> i - 1,
         State |-> <<"phase", i>>, File |-> <<"time", i>>]]

Timeline == TimelineOf("ramp")

\* scans/{id}/status/scenario.json: the step scenario of the README
StepScenario(loop, repeatLast) ==
    [Mode |-> "step", KeyParam |-> "id",
     Sequence |-> Sequence, Timeline |-> <<>>,
     AdvanceOn |-> <<[Method |-> "get", Path |-> <<>>]>>,
     ResetOn |-> <<[Method |-> " delete ", Path |-> TScan]>>,
     StartOn |-> <<>>,
     RepeatLast |-> repeatLast, Loop |-> loop]

\* scans/{id}/results/scenario.json: a time scenario reset by the same rule
\* and by the rule of the prefixed route
TimeScenario(loop, repeatLast) ==
    [Mode |-> "time", KeyParam |-> "id",
     Sequence |-> <<>>, Timeline |-> Timeline,
     AdvanceOn |-> <<>>,
     ResetOn |-> <<[Method |-> "DELETE", Path |-> TScan],
                   [Method |-> "delete", Path |-> TApiScan]>>,
     StartOn |-> <<[Method |-> "GET", Path |-> <<>>]>>,
     RepeatLast |-> repeatLast, Loop |-> loop]

\* scans/{id}/scenario.json, when present: a one-entry step scenario
ScanScenario ==
    [Mode |-> "step", KeyParam |-> "id",
     Sequence |-> <<[State |-> <<"state", 0>>, File |-> <<"scan", 0>>]>>,
     Timeline |-> <<>>,
     AdvanceOn |-> <<>>, ResetOn |-> <<>>, StartOn |-> <<>>,
     RepeatLast |-> TRUE, Loop |-> FALSE]

(* ------------------------------ pure code ------------------------------ *)
\* the scan of the template taking the first parameter whatever its name
RECURSIVE FirstParamAnyName(_, _, _, _)
FirstParamAnyName(tplParts, actParts, want, i) ==
    IF i > Len(tplParts) THEN [ok |-> FALSE, val |-> ""]
    ELSE IF IsParam(tplParts[i])
         THEN [ok |-> TRUE, val |-> actParts[i]]
         ELSE FirstParamAnyName(tplParts, actParts, want, i + 1)

\* the loop of extractPathParam: the path segment at the first parameter
\* named want
RECURSIVE FirstParam(_, _, _, _)
FirstParam(tplParts, actParts, want, i) ==
    IF i > Len(tplParts) THEN [ok |-> FALSE, val |-> ""]
    ELSE IF IsParam(tplParts[i]) /\ ParamName(tplParts[i]) = want
         THEN [ok |-> TRUE, val |-> actParts[i]]
         ELSE FirstParam(tplParts, actParts, want, i + 1)

\* extractPathParam without the comparison of the segment counts
extractPathParamAnyLength(swaggerTpl, actualPath, want) ==
    FirstParam(SplitPath(swaggerTpl), SplitPath(actualPath), want, 1)

extractPathParam(swaggerTpl, actualPath, want) ==
    LET tplParts == SplitPath(swaggerTpl)
        actParts == SplitPath(actualPath)
    IN IF Len(tplParts) # Len(actParts)
       THEN [ok |-> FALSE, val |-> ""]
       ELSE FirstParam(tplParts, actParts, want, 1)

matchTemplatePathSuffix(tpl, actual) ==
    LET tplParts == SplitPath(tpl)
        actAll == SplitPath(actual)
    IN IF Len(actAll) < Len(tplParts) THEN FALSE
       ELSE LET off == Len(actAll) - Len(tplParts)
            IN \A i \in 1..Len(tplParts) :
                  IsParam(tplParts[i]) \/ tplParts[i] = actAll[off + i]

\* a runtime key that leaves the key value out
scenarioRuntimeKeyOfTemplate(swaggerTpl, keyVal) == <<UpperTpl(swaggerTpl), "">>

\* the string ToUpper(TrimSpace(swaggerTpl)) + "::" + keyVal, as the pair of
\* its two parts
scenarioRuntimeKey(swaggerTpl, keyVal) == <<UpperTpl(swaggerTpl), keyVal>>

matchesAny(rules, method, actualPath) ==
    \E i \in 1..Len(rules) :
        /\ ToUpper(TrimSpace(rules[i].Method)) = ToUpper(method)
        /\ \/ rules[i].Path = <<>>
           \/ matchTemplatePathSuffix(rules[i].Path, actualPath)

\* strings.TrimSpace on a rule path given by its segments
TrimSpacePath(path) == [i \in DOMAIN path |-> TrimSpace(path[i])]

(* ------------------------------- maps ---------------------------------- *)
EmptyMap == [x \in {} |-> 0]
MapGet(f, k, default) == IF k \in DOMAIN f THEN f[k] ELSE default
MapPut(f, k, v) == [x \in DOMAIN f \cup {k} |-> IF x = k THEN v ELSE f[x]]
MapDel(f, ks) == [x \in DOMAIN f \ ks |-> f[x]]

(* ------------------------------- state --------------------------------- *)
VARIABLES
    cfg,            \* the deployment: descriptor flags and timeline, which folders
                    \* hold a descriptor; how far the run is followed
    stepIndex,      \* ScenarioResolver.stepIndex
    startedAt,      \* ScenarioResolver.startedAt, in clock ticks
    resetRules,     \* ScenarioResolver.resetRules
    resetByMethod,  \* ScenarioResolver.resetByMethod
    now,            \* the clock, in ticks
    pc,             \* per request worker: "idle", or the critical section it waits for
    req,            \* per request worker: the arguments of the call in flight
    hist,           \* per runtime key: what the resolves served since the slot was last absent
    armed,          \* runtime keys addressed by a reset that returned true, not served since
    race,           \* the batch of concurrent first resolves of one fresh key under observation
    call            \* the last call of a function observed by its result: op, arguments, result

vars == <<cfg, stepIndex, startedAt, resetRules, resetByMethod, now, pc, req,
          hist, armed, race, call>>

AllKeys == {scenarioRuntimeKey(t, v) : t \in Templates, v \in KeyVals}

NoEntry == [State |-> <<>>, File |-> <<>>]
NoReq == [k |-> <<>>, tpl |-> <<>>, method |-> "", path |-> <<>>]
NoRace == [k |-> <<>>, members |-> {}, got |-> <<>>]
NoCall == [op |-> "none"]

\* hist[k].n counts the resolves served since the slot of k was last absent
\* while all of them matched advanceOn and the count is within cfg.Horizon;
\* it is -1 once one did not match or the horizon is passed.  idx, entry and
\* elapsed are those of the resolve served last (idx -1: none yet).  A
\* deployment with cfg.Horizon = 0 is not observed: hist stays NoHist.
NoHist == [n |-> 0, idx |-> -1, entry |-> NoEntry, elapsed |-> 0]

HasDescriptor(tpl) == tpl \in {TStatus, TResults} \/ (tpl = TScan /\ cfg.ScanDesc)

\* the descriptor of the folder of tpl; a deployment that names its own
\* behavior.advanceOn and behavior.resetOn has them in scans/{id}/status
ScenarioAt(tpl) ==
    CASE tpl = TStatus ->
             IF "AdvanceOn" \in DOMAIN cfg
             THEN [StepScenario(cfg.Loop, cfg.RepeatLast)
                      EXCEPT !.AdvanceOn = cfg.AdvanceOn, !.ResetOn = cfg.ResetOn]
             ELSE StepScenario(cfg.Loop, cfg.RepeatLast)
      [] tpl = TResults -> [TimeScenario(cfg.Loop, cfg.RepeatLast)
                               EXCEPT !.Timeline = TimelineOf(cfg.Shape)]
      [] OTHER -> ScanScenario

\* the state after NewScenarioResolver(), for a deployment d
InitWith(d) ==
    /\ cfg = d
    /\ stepIndex = EmptyMap
    /\ startedAt = EmptyMap
    /\ resetRules = EmptyMap
    /\ resetByMethod = EmptyMap
    /\ now = 0
    /\ pc = [p \in Procs |-> "idle"]
    /\ req = [p \in Procs |-> NoReq]
    /\ hist = [k \in AllKeys |-> NoHist]
    /\ armed = {}
    /\ race = NoRace
    /\ call = NoCall

(* ------------------- ResolveScenarioFile: registration ----------------- *)
\* the ResetRule list built from behavior.resetOn
BuildRules(sc) ==
    [i \in 1..Len(sc.ResetOn) |->
        [Method |-> ToUpper(TrimSpace(sc.ResetOn[i].Method)),
         PathTpl |-> TrimSpacePath(sc.ResetOn[i].Path)]]

\* the loop over e.resetRules[k] appending without the search for an
\* existing item
RECURSIVE RegisterRulesAppends(_, _, _, _, _)
RegisterRulesAppends(rbm, rules, i, swaggerTpl, keyParam) ==
    IF i > Len(rules) THEN rbm
    ELSE LET rr == rules[i]
             list == MapGet(rbm, rr.Method, <<>>)
             item == [rule |-> rr,
                      binding |-> [ScenarioTpl |-> swaggerTpl, KeyParam |-> keyParam]]
             next == IF rr.Method = "" \/ rr.PathTpl = <<>>
                     THEN rbm
                     ELSE MapPut(rbm, rr.Method, Append(list, item))
         IN RegisterRulesAppends(next, rules, i + 1, swaggerTpl, keyParam)

\* the loop over e.resetRules[k] that fills e.resetByMethod
RECURSIVE RegisterRules(_, _, _, _, _)
RegisterRules(rbm, rules, i, swaggerTpl, keyParam) ==
    IF i > Len(rules) THEN rbm
    ELSE LET rr == rules[i]
             list == MapGet(rbm, rr.Method, <<>>)
             exists == \E j \in 1..Len(list) :
                          /\ list[j].rule.PathTpl = rr.PathTpl
                          /\ list[j].binding.ScenarioTpl = swaggerTpl
                          /\ list[j].binding.KeyParam = keyParam
             item == [rule |-> rr,
                      binding |-> [ScenarioTpl |-> swaggerTpl, KeyParam |-> keyParam]]
             next == IF rr.Method = "" \/ rr.PathTpl = <<>> \/ exists
                     THEN rbm
                     ELSE MapPut(rbm, rr.Method, Append(list, item))
         IN RegisterRules(next, rules, i + 1, swaggerTpl, keyParam)

\* the batch of concurrent first resolves that starts when worker p has
\* registered for key k: every worker is then in flight for k, k has no slot
\* and every request of the batch matches advanceOn
RaceStarts(p, k, sc, method) ==
    /\ sc.Mode = "step"
    /\ k \notin DOMAIN stepIndex
    /\ hist[k].idx = -1
    /\ matchesAny(sc.AdvanceOn, method, <<>>)
    /\ \A q \in Procs \ {p} :
          /\ pc[q] = "step"
          /\ req[q].k = k
          /\ matchesAny(sc.AdvanceOn, req[q].method, <<>>)

\* ResolveScenarioFile up to the first e.mu.Unlock(): key extraction and the
\* registration of the reset rules; the worker then waits for the lock of
\* resolveStep or resolveTime
Registration(p, sc, method0, swaggerTpl, actualPath) ==
    LET method == ToUpper(method0)
        kv == extractPathParam(swaggerTpl, actualPath, sc.KeyParam)
        k == scenarioRuntimeKey(swaggerTpl, kv.val)
        rules == IF k \in DOMAIN resetRules THEN resetRules[k] ELSE BuildRules(sc)
    IN /\ pc[p] = "idle"
       /\ IF ~kv.ok \/ TrimSpace(kv.val) = ""
          THEN UNCHANGED <<resetRules, resetByMethod, pc, req, race>>
          ELSE /\ resetRules' = MapPut(resetRules, k, rules)
               /\ resetByMethod' =
                     RegisterRules(resetByMethod, rules, 1, swaggerTpl, sc.KeyParam)
               /\ pc' = [pc EXCEPT ![p] = sc.Mode]
               /\ req' = [req EXCEPT ![p] = [k |-> k, tpl |-> swaggerTpl,
                                             method |-> method, path |-> actualPath]]
               /\ race' = IF RaceStarts(p, k, sc, method)
                          THEN [k |-> k, members |-> Procs, got |-> <<>>]
                          ELSE race
       /\ UNCHANGED <<cfg, stepIndex, startedAt, now, hist, armed>>

\* ResolveScenarioFile called on the resolver itself
ResolveScenarioFile(p, sc, method0, swaggerTpl, actualPath) ==
    /\ Registration(p, sc, method0, swaggerTpl, actualPath)
    /\ UNCHANGED call

(* ----------------------------- resolveStep ----------------------------- *)
\* resolveStep without its read of the stored index
StepServedFirst(k, sc) == 0

\* the index resolveStep serves: the stored one, clamped into the sequence
StepServed(k, sc) ==
    LET idx == MapGet(stepIndex, k, 0)
    IN IF idx < 0 THEN 0
       ELSE IF idx >= Len(sc.Sequence) THEN Len(sc.Sequence) - 1
       ELSE idx

\* resolveStep wrapping to 0 whatever behavior.loop is
StepNextWraps(idx, sc, method) ==
    IF matchesAny(sc.AdvanceOn, method, <<>>)
    THEN IF idx + 1 >= Len(sc.Sequence) THEN 0 ELSE idx + 1
    ELSE idx

\* resolveStep staying on the last entry whatever behavior.loop is
StepNextClamps(idx, sc, method) ==
    IF matchesAny(sc.AdvanceOn, method, <<>>)
    THEN IF idx + 1 >= Len(sc.Sequence) THEN Len(sc.Sequence) - 1 ELSE idx + 1
    ELSE idx

\* resolveStep without the check of the end of the sequence
StepNextUnbounded(idx, sc, method) ==
    IF matchesAny(sc.AdvanceOn, method, <<>>) THEN idx + 1 ELSE idx

\* resolveStep advancing by two entries
StepNextSkips(idx, sc, method) ==
    IF matchesAny(sc.AdvanceOn, method, <<>>)
    THEN IF idx + 2 >= Len(sc.Sequence)
         THEN IF sc.Loop THEN 0 ELSE Len(sc.Sequence) - 1
         ELSE idx + 2
    ELSE idx

\* resolveStep storing the index it served
StepNextStays(idx, sc, method) == idx

\* the index resolveStep stores
StepNext(idx, sc, method) ==
    IF matchesAny(sc.AdvanceOn, method, <<>>)
    THEN IF idx + 1 >= Len(sc.Sequence)
         THEN IF sc.Loop THEN 0 ELSE Len(sc.Sequence) - 1
         ELSE idx + 1
    ELSE idx

\* what a completed resolve of worker p for key k does to the observed batch
RaceAfter(p, k, idx) ==
    IF race.k # k THEN race
    ELSE IF p \in race.members
         THEN [race EXCEPT !.members = @ \ {p}, !.got = Append(@, idx)]
         ELSE NoRace

\* the observation of a served resolve
HistAfter(h, idx, entry, adv, elapsedSec) ==
    IF cfg.Horizon = 0 THEN h
    ELSE
    [n |-> IF h.n >= 0 /\ adv /\ h.n < cfg.Horizon THEN h.n + 1 ELSE -1,
     idx |-> idx,
     entry |-> [State |-> entry.State, File |-> entry.File],
     elapsed |-> elapsedSec]

\* resolveStep: its critical section
StepSection(p) ==
    LET k == req[p].k
        sc == ScenarioAt(req[p].tpl)
        idx == StepServed(k, sc)
        entry == sc.Sequence[idx + 1]
    IN /\ pc[p] = "step"
       /\ Len(sc.Sequence) > 0
       /\ stepIndex' = MapPut(stepIndex, k, StepNext(idx, sc, req[p].method))
       /\ hist' = [hist EXCEPT ![k] = HistAfter(@, idx, entry,
                       matchesAny(sc.AdvanceOn, req[p].method, <<>>), 0)]
       /\ armed' = armed \ {k}
       /\ race' = RaceAfter(p, k, idx)
       /\ pc' = [pc EXCEPT ![p] = "idle"]
       /\ req' = [req EXCEPT ![p] = NoReq]
       /\ UNCHANGED <<cfg, startedAt, resetRules, resetByMethod, now>>

resolveStep(p) ==
    /\ StepSection(p)
    /\ UNCHANGED call

(* ----------------------------- resolveTime ----------------------------- *)
\* int64(time.Since(t0).Seconds())
ElapsedSec(t0) == (now - t0) \div TicksPerSec

\* resolveTime wrapping at total instead of total + 1
EffectiveSecModTotal(sc, elapsedSec) ==
    LET last == sc.Timeline[Len(sc.Timeline)].AfterSec
        total == IF last < 0 THEN 0 ELSE last
    IN IF sc.Loop /\ total > 0 THEN elapsedSec % total
       ELSE IF elapsedSec > total THEN total
       ELSE elapsedSec

\* elapsedSec after the loop / repeatLast / clamp branches
EffectiveSec(sc, elapsedSec) ==
    LET last == sc.Timeline[Len(sc.Timeline)].AfterSec
        total == IF last < 0 THEN 0 ELSE last
    IN IF sc.Loop /\ total > 0 THEN elapsedSec % (total + 1)
       ELSE IF elapsedSec > total THEN total
       ELSE elapsedSec

\* the scan of the timeline comparing with < instead of <=
RECURSIVE TimeChosenStrict(_, _, _, _)
TimeChosenStrict(timeline, elapsedSec, i, chosen) ==
    IF i > Len(timeline) THEN chosen
    ELSE IF timeline[i].AfterSec < elapsedSec
         THEN TimeChosenStrict(timeline, elapsedSec, i + 1, i)
         ELSE chosen

\* the scan of the timeline: the last entry of the leading run of entries
\* with AfterSec <= elapsedSec, the first entry if that run is empty
RECURSIVE TimeChosen(_, _, _, _)
TimeChosen(timeline, elapsedSec, i, chosen) ==
    IF i > Len(timeline) THEN chosen
    ELSE IF timeline[i].AfterSec <= elapsedSec
         THEN TimeChosen(timeline, elapsedSec, i + 1, i)
         ELSE chosen

\* resolveTime publishing a start timestamp on every call
TimeStartAlways(k) == now

\* resolveTime counting from the start of the process
TimeStartAtZero(k) == MapGet(startedAt, k, 0)

\* t0: the start timestamp of the key, time.Now() when it has none
TimeStart(k) == MapGet(startedAt, k, now)

\* resolveTime: its critical section and the choice of the entry
TimeSection(p) ==
    LET k == req[p].k
        sc == ScenarioAt(req[p].tpl)
        t0 == TimeStart(k)
        elapsedSec == ElapsedSec(t0)
        idx == TimeChosen(sc.Timeline, EffectiveSec(sc, elapsedSec), 1, 1)
    IN /\ pc[p] = "time"
       /\ Len(sc.Timeline) > 0
       /\ startedAt' = MapPut(startedAt, k, t0)
       /\ hist' = [hist EXCEPT ![k] = HistAfter(@, idx - 1, sc.Timeline[idx],
                                                FALSE, elapsedSec)]
       /\ armed' = armed \ {k}
       /\ pc' = [pc EXCEPT ![p] = "idle"]
       /\ req' = [req EXCEPT ![p] = NoReq]
       /\ UNCHANGED <<cfg, stepIndex, resetRules, resetByMethod, now, race>>

resolveTime(p) ==
    /\ TimeSection(p)
    /\ UNCHANGED call

\* resolveTime with its key and method observed, and whether the key had a
\* start timestamp
resolveTimeCall(p) ==
    /\ TimeSection(p)
    /\ call' = [op |-> "resolveTime", k |-> req[p].k, method |-> req[p].method,
                path |-> req[p].path, first |-> req[p].k \notin DOMAIN startedAt,
                at |-> now]

(* --------------------------- TryResetByRequest ------------------------- *)
ResetList(method) == MapGet(resetByMethod, ToUpper(method), <<>>)

\* a registered item the loop of TryResetByRequest acts on: the rule
\* suffix-matches the path and extractPathParam yields a non-empty key
ResetHitUnmatched(it, actualPath) ==
    LET kv == extractPathParam(it.rule.PathTpl, actualPath, it.binding.KeyParam)
    IN kv.ok /\ TrimSpace(kv.val) # ""

ResetHit(it, actualPath) ==
    /\ it.rule.PathTpl = <<>> \/ matchTemplatePathSuffix(it.rule.PathTpl, actualPath)
    /\ LET kv == extractPathParam(it.rule.PathTpl, actualPath, it.binding.KeyParam)
       IN kv.ok /\ TrimSpace(kv.val) # ""

\* the runtime keys whose slots TryResetByRequest deletes
ResetKeys(method, actualPath) ==
    LET list == ResetList(method)
    IN {scenarioRuntimeKey(list[i].binding.ScenarioTpl,
            extractPathParam(list[i].rule.PathTpl, actualPath,
                             list[i].binding.KeyParam).val) :
          i \in {j \in 1..Len(list) : ResetHit(list[j], actualPath)}}

\* the value TryResetByRequest returns
ResetAny(method, actualPath) ==
    LET list == ResetList(method)
    IN \E i \in 1..Len(list) : ResetHit(list[i], actualPath)

\* the segment of actualPath aligned, from the end, with the {want}
\* placeholder of tpl
AlignedValue(tpl, actualPath, want) ==
    LET off == Len(actualPath) - Len(tpl)
        i == CHOOSE j \in 1..Len(tpl) : IsParam(tpl[j]) /\ ParamName(tpl[j]) = want
    IN actualPath[off + i]

\* the runtime keys a request addresses: those of a scenario one of whose
\* registered reset rules has the request's method and equals the last
\* segments of the request's path
Addressed(method, actualPath) ==
    LET list == ResetList(method)
    IN {scenarioRuntimeKey(list[i].binding.ScenarioTpl,
            AlignedValue(list[i].rule.PathTpl, actualPath, list[i].binding.KeyParam)) :
          i \in {j \in 1..Len(list) :
                    /\ matchTemplatePathSuffix(list[j].rule.PathTpl, actualPath)
                    /\ \E s \in 1..Len(list[j].rule.PathTpl) :
                          /\ IsParam(list[j].rule.PathTpl[s])
                          /\ ParamName(list[j].rule.PathTpl[s]) = list[j].binding.KeyParam}}

\* the critical section of TryResetByRequest: the deletes of the loop
ResetSlots(method, actualPath) ==
    LET ks == ResetKeys(method, actualPath)
    IN /\ stepIndex' = MapDel(stepIndex, ks)
       /\ startedAt' = MapDel(startedAt, ks)
       /\ resetRules' = MapDel(resetRules, ks)
       /\ hist' = [k \in AllKeys |-> IF k \in ks THEN NoHist ELSE hist[k]]
       /\ armed' = IF ResetAny(method, actualPath)
                   THEN armed \cup (Addressed(method, actualPath) \cap AllKeys)
                   ELSE armed
       /\ race' = IF race.k \in ks THEN NoRace ELSE race
       /\ UNCHANGED <<cfg, resetByMethod, now, pc, req>>

\* TryResetByRequest, its result dropped
ResetEffect(method, actualPath) ==
    /\ ResetSlots(method, actualPath)
    /\ UNCHANGED call

\* TryResetByRequest; the value it returns is ResetAny(method, actualPath)
TryResetByRequest(method, actualPath) == ResetEffect(method, actualPath)

\* TryResetByRequest with its arguments and the value it returns observed
TryResetByRequestCall(method, actualPath) ==
    /\ ResetSlots(method, actualPath)
    /\ call' = [op |-> "TryResetByRequest", method |-> method, path |-> actualPath,
                out |-> ResetAny(method, actualPath)]

(* ------------------------------ ResolvePath ---------------------------- *)
\* the sample files of the folders without a descriptor
FolderSamples == {<<TScan, "DELETE">>, <<TScan, "GET">>}

\* the walk over buildCandidates: does a sample file exist
FindSample(method, swaggerTpl) == <<swaggerTpl, method>> \in FolderSamples

\* SampleProvider.ResolvePath with scenarios enabled: the scenario of the
\* endpoint's folder when it has a descriptor; otherwise TryResetByRequest,
\* its result dropped, and then the sample of the folder
ResolvePath(p, method0, swaggerTpl, actualPath) ==
    LET method == ToUpper(method0)
    IN IF HasDescriptor(swaggerTpl)
       THEN ResolveScenarioFile(p, ScenarioAt(swaggerTpl), method, swaggerTpl, actualPath)
       ELSE /\ pc[p] = "idle"
            /\ TryResetByRequest(method, actualPath)

(* -------------------------------- clock -------------------------------- *)
Tick ==
    /\ now < cfg.LastTick
    /\ now' = now + 1
    /\ UNCHANGED <<cfg, stepIndex, startedAt, resetRules, resetByMethod, pc, req,
                   hist, armed, race, call>>

(* ---------------------------- specifications --------------------------- *)
\* the paths of the direct ResolveScenarioFile calls: the paths of the
\* template, and one that is not of the template
StepPaths == {Concrete(TStatus, v) : v \in KeyVals} \cup {Concrete(TScan, "1")}

\* The resolver alone, on the step scenario of scans/{id}/status: concurrent
\* ResolveScenarioFile calls and direct TryResetByRequest calls.
InitStep ==
    \E d \in [Loop : BOOLEAN, RepeatLast : BOOLEAN, ScanDesc : {FALSE},
              Horizon : {MaxServed}, Shape : {"ramp"}, LastTick : {MaxNow}] :
        InitWith(d)

NextStep ==
    \/ \E p \in Procs, m \in Methods, path \in StepPaths :
          ResolveScenarioFile(p, ScenarioAt(TStatus), m, TStatus, path)
    \/ \E p \in Procs : resolveStep(p)
    \/ \E m \in Methods, v \in KeyVals : TryResetByRequest(m, Concrete(TScan, v))

SpecStep == InitStep /\ [][NextStep]_vars

\* the worker that handles the requests of a pipeline served one at a time
Handler == CHOOSE p \in Procs : TRUE

\* The whole pipeline of a deployment whose folder scans/{id} holds samples
\* only: every request goes through SampleProvider.ResolvePath, one request
\* at a time.
Init ==
    \E d \in [Loop : BOOLEAN, RepeatLast : {TRUE}, ScanDesc : {FALSE},
              Horizon : {0}, Shape : {"ramp"}, LastTick : {MaxNow}] :
        InitWith(d)

Next ==
    \/ \E m \in Methods, tpl \in Templates, v \in KeyVals :
          /\ \A q \in Procs : pc[q] = "idle"
          /\ ResolvePath(Handler, m, tpl, Concrete(tpl, v))
    \/ \E p \in Procs : resolveStep(p)
    \/ \E p \in Procs : resolveTime(p)
    \/ Tick

Spec == Init /\ [][Next]_vars

\* The pipeline of a deployment whose folder scans/{id} holds a scenario
\* descriptor of its own, on the routes scans/{id}/status and scans/{id}.
InitDesc ==
    \E d \in [Loop : BOOLEAN, RepeatLast : {TRUE}, ScanDesc : {TRUE},
              Horizon : {0}, Shape : {"ramp"}, LastTick : {MaxNow}] :
        InitWith(d)

NextDesc ==
    \/ \E m \in Methods, tpl \in {TStatus, TScan}, v \in KeyVals :
          /\ \A q \in Procs : pc[q] = "idle"
          /\ ResolvePath(Handler, m, tpl, Concrete(tpl, v))
    \/ \E p \in Procs : resolveStep(p)

SpecDesc == InitDesc /\ [][NextDesc]_vars

\* The resolver alone, on the time scenario of scans/{id}/results with one of
\* three timelines: concurrent ResolveScenarioFile calls for one key, direct
\* TryResetByRequest calls, and a clock that runs past the end of the
\* timeline and of its first loop.
TimeKeyVal == CHOOSE v \in KeyVals : TRUE

InitTime ==
    \E d \in [Loop : BOOLEAN, RepeatLast : BOOLEAN, ScanDesc : {FALSE},
              Horizon : {MaxServed}, Shape : {"ramp", "late", "flat"},
              LastTick : {TicksPerSec * (TimeLen + 2)}] :
        InitWith(d)

NextTime ==
    \/ \E p \in Procs :
          ResolveScenarioFile(p, ScenarioAt(TResults), "GET", TResults,
                              Concrete(TResults, TimeKeyVal))
    \/ \E p \in Procs : resolveTime(p)
    \/ TryResetByRequest("DELETE", Concrete(TScan, TimeKeyVal))
    \/ Tick

SpecTime == InitTime /\ [][NextTime]_vars

\* the behavior.advanceOn lists of the deployments: a method in lower case
\* with blanks around it and no path; the path template of the route; a rule
\* of another method and a rule with the path of another route; none
AdvanceLists ==
    {<<[Method |-> " get ", Path |-> <<>>]>>,
     <<[Method |-> "GET", Path |-> TStatus]>>,
     <<[Method |-> "delete", Path |-> <<>>], [Method |-> "GET", Path |-> TScan]>>,
     <<>>}

\* the behavior.resetOn lists of the deployments: the rule of the README; the
\* same rule twice and a rule without a path
ResetLists ==
    {<<[Method |-> " delete ", Path |-> TScan]>>,
     <<[Method |-> "DELETE", Path |-> TScan], [Method |-> "delete", Path |-> TScan],
       [Method |-> "GET", Path |-> <<>>]>>}

\* the paths of the observed TryResetByRequest calls: the paths of the reset
\* rule, a path of another route of the same length, a path of the scenario
ResetPaths ==
    {Concrete(TScan, v) : v \in KeyVals}
        \cup {<<"other", "1">>, Concrete(TStatus, "1")}

\* The resolver alone, on the step scenario of scans/{id}/status with one of
\* the advanceOn lists and one of the resetOn lists: concurrent
\* ResolveScenarioFile calls and direct TryResetByRequest calls.
InitRules ==
    \E d \in [Loop : BOOLEAN, RepeatLast : {TRUE}, ScanDesc : {FALSE},
              Horizon : {1}, Shape : {"ramp"}, LastTick : {MaxNow},
              AdvanceOn : AdvanceLists, ResetOn : ResetLists] :
        InitWith(d)

NextRules ==
    \/ \E p \in Procs, m \in Methods, v \in KeyVals :
          ResolveScenarioFile(p, ScenarioAt(TStatus), m, TStatus, Concrete(TStatus, v))
    \/ \E p \in Procs : resolveStep(p)
    \/ \E m \in Methods, v \in KeyVals : TryResetByRequest(m, Concrete(TScan, v))

SpecRules == InitRules /\ [][NextRules]_vars

\* The resolver alone, on the step scenario of scans/{id}/status with one of
\* the resetOn lists: concurrent ResolveScenarioFile calls, and
\* TryResetByRequest calls whose arguments and result are observed.
InitReset ==
    \E d \in [Loop : {FALSE}, RepeatLast : {TRUE}, ScanDesc : {FALSE},
              Horizon : {0}, Shape : {"ramp"}, LastTick : {MaxNow},
              AdvanceOn : {<<[Method |-> " get ", Path |-> <<>>]>>},
              ResetOn : ResetLists] :
        InitWith(d)

NextReset ==
    \/ \E p \in Procs, m \in Methods, v \in KeyVals :
          ResolveScenarioFile(p, ScenarioAt(TStatus), m, TStatus, Concrete(TStatus, v))
    \/ \E p \in Procs : resolveStep(p)
    \/ \E m \in Methods, path \in ResetPaths : TryResetByRequestCall(m, path)

SpecReset == InitReset /\ [][NextReset]_vars

(* ------------------- SampleProvider.ResolvePath: result ---------------- *)
\* fmt.Sprintf("%s.json", method) on the methods that occur in the model
MethodFile(method) ==
    CASE method = "GET" -> "GET.json"
      [] method = "DELETE" -> "DELETE.json"
      [] OTHER -> "get.json"

\* swaggerPathToSampleName(method, "/scans/{id}"), Route.SampleFile
swaggerPathToSampleName(method) ==
    CASE ToUpper(method) = "GET" -> "GET__scans_{id}.json"
      [] OTHER -> "DELETE__scans_{id}.json"

\* ProviderConfig.ScenarioFilename
ScenarioFilename == "scenario.json"

\* the files a sample tree may hold below BaseDir, as paths relative to it
SampleTree ==
    {Append(TScan, f) : f \in {ScenarioFilename, "a.json", "GET.json", "DELETE.json"}}
        \cup {<<swaggerPathToSampleName(m)>> : m \in Methods}

\* what cfg.Engine.ResolveScenarioFile may return: an error, or a file name
EngineResults ==
    {[err |-> TRUE, file |-> ""], [err |-> FALSE, file |-> "a.json"],
     [err |-> FALSE, file |-> "GET.json"]}

\* config.LayoutMode values, with the empty one and one that is none of them
Layouts == {"", "auto", "folders", "flat", "tree"}

\* utils.FileExists, relative to BaseDir
FileExists(path) == path \in cfg.Files

\* ScenarioPathForSwagger, relative to BaseDir
ScenarioPathForSwagger(swaggerPath, filename) == Append(swaggerPath, filename)

\* filepath.Dir of a path with at least one segment
Dir(path) == SubSeq(path, 1, Len(path) - 1)

\* buildCandidates listing the flat file before the folder file
buildCandidatesFlatFirst(layout0, method, swaggerPath, legacyFlatFilename) ==
    LET layout == IF layout0 = "" THEN "auto" ELSE layout0
    IN (IF layout \in {"auto", "flat"} THEN <<<<legacyFlatFilename>>>> ELSE <<>>)
       \o (IF layout \in {"auto", "folders"}
           THEN <<Append(swaggerPath, MethodFile(method))>> ELSE <<>>)

\* buildCandidates: the folder file, then the flat file, as the layout admits
buildCandidates(layout0, method, swaggerPath, legacyFlatFilename) ==
    LET layout == IF layout0 = "" THEN "auto" ELSE layout0
    IN (IF layout \in {"auto", "folders"}
        THEN <<Append(swaggerPath, MethodFile(method))>> ELSE <<>>)
       \o (IF layout \in {"auto", "flat"} THEN <<<<legacyFlatFilename>>>> ELSE <<>>)

\* the walk over the candidates from position i on
RECURSIVE FirstExisting(_, _)
FirstExisting(candidates, i) ==
    IF i > Len(candidates) THEN [err |-> "no sample file found", path |-> <<>>]
    ELSE IF FileExists(candidates[i]) THEN [err |-> "", path |-> candidates[i]]
    ELSE FirstExisting(candidates, i + 1)

\* ResolvePath after the scenario block: the folder / flat candidates
CandidateResult(method, swaggerTpl, legacyFlatFilename) ==
    LET candidates == buildCandidates(cfg.Layout, method, swaggerTpl, legacyFlatFilename)
    IN IF Len(candidates) = 0 THEN [err |-> "no candidates", path |-> <<>>]
       ELSE FirstExisting(candidates, 1)

\* the scenario block going on to the candidates when the chosen file is
\* missing
ScenarioResultFallsThrough(method, swaggerTpl, legacyFlatFilename, scen) ==
    LET scPath == ScenarioPathForSwagger(swaggerTpl, ScenarioFilename)
        full == Append(Dir(scPath), scen.file)
    IN IF ~cfg.DescLoads THEN [err |-> "load scenario", path |-> <<>>]
       ELSE IF ~cfg.EngineSet THEN [err |-> "engine is nil", path |-> <<>>]
       ELSE IF scen.err THEN [err |-> "scenario resolve", path |-> <<>>]
       ELSE IF FileExists(full) THEN [err |-> "", path |-> full]
       ELSE CandidateResult(method, swaggerTpl, legacyFlatFilename)

\* the scenario block of ResolvePath once the descriptor file exists; scen is
\* what cfg.Engine.ResolveScenarioFile returns
ScenarioResult(method, swaggerTpl, legacyFlatFilename, scen) ==
    LET scPath == ScenarioPathForSwagger(swaggerTpl, ScenarioFilename)
        full == Append(Dir(scPath), scen.file)
    IN IF ~cfg.DescLoads THEN [err |-> "load scenario", path |-> <<>>]
       ELSE IF ~cfg.EngineSet THEN [err |-> "engine is nil", path |-> <<>>]
       ELSE IF scen.err THEN [err |-> "scenario resolve", path |-> <<>>]
       ELSE IF FileExists(full) THEN [err |-> "", path |-> full]
       ELSE [err |-> "scenario file not found", path |-> <<>>]

\* what SampleProvider.ResolvePath returns: the path relative to BaseDir, or
\* an error
ResolvePathResult(method0, swaggerTpl, legacyFlatFilename, scen) ==
    LET method == ToUpper(method0)
    IN IF cfg.ScenarioEnabled
          /\ FileExists(ScenarioPathForSwagger(swaggerTpl, ScenarioFilename))
       THEN ScenarioResult(method, swaggerTpl, legacyFlatFilename, scen)
       ELSE CandidateResult(method, swaggerTpl, legacyFlatFilename)

\* a call ResolvePath makes, in the order of the calls: utils.FileExists on
\* a path relative to BaseDir, or a method of cfg.Engine with its arguments
Event(ev, method, path) == [ev |-> ev, method |-> method, path |-> path]

\* the utils.FileExists calls of the walk over the candidates from i on
RECURSIVE WalkEvents(_, _)
WalkEvents(candidates, i) ==
    IF i > Len(candidates) THEN <<>>
    ELSE <<Event("FileExists", "", candidates[i])>>
            \o (IF FileExists(candidates[i]) THEN <<>>
                ELSE WalkEvents(candidates, i + 1))

\* the engine call of the scenario block with a descriptor: none when the
\* descriptor does not load or the engine is nil
ResolveEvents(method, swaggerTpl, actualPath, scen) ==
    IF ~cfg.DescLoads \/ ~cfg.EngineSet THEN <<>>
    ELSE <<Event("ResolveScenarioFile", method, actualPath)>>
            \o (IF scen.err THEN <<>>
                ELSE <<Event("FileExists", "", Append(swaggerTpl, scen.file))>>)

\* the reset call made without asking whether the engine is nil
TryResetEventsNilEngine(method, actualPath) ==
    <<Event("TryResetByRequest", method, actualPath)>>

\* the reset call of the scenario block without a descriptor
TryResetEvents(method, actualPath) ==
    IF cfg.ScenarioEnabled /\ cfg.EngineSet
    THEN <<Event("TryResetByRequest", method, actualPath)>>
    ELSE <<>>

\* the calls SampleProvider.ResolvePath makes, in their order
ResolvePathEvents(method0, swaggerTpl, actualPath, legacyFlatFilename, scen) ==
    LET method == ToUpper(method0)
        scPath == ScenarioPathForSwagger(swaggerTpl, ScenarioFilename)
        candidates == buildCandidates(cfg.Layout, method, swaggerTpl, legacyFlatFilename)
    IN IF cfg.ScenarioEnabled
       THEN <<Event("FileExists", "", scPath)>>
               \o (IF FileExists(scPath)
                   THEN ResolveEvents(method, swaggerTpl, actualPath, scen)
                   ELSE TryResetEvents(method, actualPath)
                           \o WalkEvents(candidates, 1))
       ELSE WalkEvents(candidates, 1)

\* one ResolvePath call of the provider, observed by its result and by the
\* calls it made
ResolvePathCall(method0, swaggerTpl, actualPath, scen) ==
    /\ call = NoCall
    /\ call' = [op |-> "ResolvePath", method |-> method0, tpl |-> swaggerTpl,
                path |-> actualPath, scen |-> scen,
                out |-> ResolvePathResult(method0, swaggerTpl,
                                          swaggerPathToSampleName(method0), scen),
                events |-> ResolvePathEvents(method0, swaggerTpl, actualPath,
                                             swaggerPathToSampleName(method0), scen)]
    /\ UNCHANGED <<cfg, stepIndex, startedAt, resetRules, resetByMethod, now, pc,
                   req, hist, armed, race>>

\* The sample provider of any deployment with any engine behind the
\* IScenarioResolver interface: requests for the route scans/{id}.
InitProvider ==
    \E d \in [ScenarioEnabled : BOOLEAN, Layout : Layouts, EngineSet : BOOLEAN,
              DescLoads : BOOLEAN, Files : SUBSET SampleTree] :
        InitWith(d)

NextProvider ==
    \E m \in {"get", "DELETE"}, v \in KeyVals, scen \in EngineResults :
        ResolvePathCall(m, TScan, Concrete(TScan, v), scen)

SpecProvider == InitProvider /\ [][NextProvider]_vars

(* ----------------------------- Server.handle --------------------------- *)
\* the concrete paths of the health endpoints
HealthPaths == {<<"health", "alive">>, <<"health", "ready">>, <<"health", "started">>}

\* request bodies: none, one whose read fails, and readable bytes
Bodies ==
    {[kind |-> "nil", text |-> ""], [kind |-> "unreadable", text |-> ""]}
        \cup {[kind |-> "bytes", text |-> t] : t \in {"", " ", "{}"}}

\* what sampleProvider.ResolveAndLoad may return: an error, or the response
\* loadFile built: status 200, or the status an envelope declares
LoadResults ==
    {[err |-> TRUE, status |-> 0, contentType |-> "", body |-> ""]}
        \cup {[err |-> FALSE, status |-> st, contentType |-> "application/json",
               body |-> "sample"] : st \in {200, 400, 503}}

\* utils.WriteJSON(w, status, {"error": text, ...})
WriteJSON(status, text) ==
    [status |-> status, contentType |-> "application/json", body |-> text]

\* Validator.HasRequiredBodyParam for the operation of the matched route
HasRequiredBodyParam == cfg.OpDeclared /\ cfg.BodyRequired

\* Validator.IsEmptyBody testing the length of the untrimmed bytes
IsEmptyBodyUntrimmed(body) ==
    CASE body.kind = "nil" -> [empty |-> TRUE, err |-> FALSE]
      [] body.kind = "unreadable" -> [empty |-> FALSE, err |-> TRUE]
      [] OTHER -> [empty |-> body.text = "", err |-> FALSE]

\* Validator.IsEmptyBody
IsEmptyBody(body) ==
    CASE body.kind = "nil" -> [empty |-> TRUE, err |-> FALSE]
      [] body.kind = "unreadable" -> [empty |-> FALSE, err |-> TRUE]
      [] OTHER -> [empty |-> TrimSpace(body.text) = "", err |-> FALSE]

\* SpecProvider.TryGetExampleBody for the operation of the matched route
TryGetExampleBody ==
    IF cfg.OpDeclared /\ cfg.HasResponses
    THEN [ok |-> TRUE, body |-> "example"]
    ELSE [ok |-> FALSE, body |-> ""]

\* the failure branch of handle answering with the example whatever
\* FALLBACK_MODE is
FailureResponseAnyMode(load) ==
    IF TryGetExampleBody.ok
    THEN [status |-> 200, contentType |-> "application/json",
          body |-> TryGetExampleBody.body]
    ELSE WriteJSON(501, "No sample file for route")

\* handle after ResolveAndLoad returned an error
FailureResponse(load) ==
    IF cfg.FallbackMode = "openapi_examples" /\ TryGetExampleBody.ok
    THEN [status |-> 200, contentType |-> "application/json",
          body |-> TryGetExampleBody.body]
    ELSE WriteJSON(501, "No sample file for route")

\* the response of Server.handle to a request; load is what ResolveAndLoad
\* returns when it is reached
handle(method, path, body, load) ==
    IF method = "GET" /\ path \in HealthPaths THEN WriteJSON(200, "ok")
    ELSE IF ~(cfg.Routed /\ path \notin HealthPaths) THEN WriteJSON(404, "No route")
    ELSE IF /\ cfg.ValidationMode = "required"
            /\ HasRequiredBodyParam
            /\ (IsEmptyBody(body).err \/ IsEmptyBody(body).empty)
         THEN WriteJSON(400, "Bad Request")
    ELSE IF load.err THEN FailureResponse(load)
    ELSE [status |-> load.status, contentType |-> load.contentType,
          body |-> load.body]

\* one request handled, observed by its response
HandleCall(method, path, body, load) ==
    /\ call = NoCall
    /\ call' = [op |-> "handle", method |-> method, path |-> path, body |-> body,
                load |-> load, out |-> handle(method, path, body, load)]
    /\ UNCHANGED <<cfg, stepIndex, startedAt, resetRules, resetByMethod, now, pc,
                   req, hist, armed, race>>

\* The HTTP handler of any deployment, with any sample provider behind the
\* ISampleProvider interface.
InitServer ==
    \E d \in [ValidationMode : {"none", "required"},
              FallbackMode : {"none", "openapi_examples"},
              Routed : BOOLEAN, OpDeclared : BOOLEAN, BodyRequired : BOOLEAN,
              HasResponses : BOOLEAN] :
        InitWith(d)

NextServer ==
    \E method \in Methods, path \in {<<"health", "alive">>, Concrete(TScan, "1")},
       body \in Bodies, load \in LoadResults :
        HandleCall(method, path, body, load)

SpecServer == InitServer /\ [][NextServer]_vars

(* ------------------------------ the router ----------------------------- *)
\* For the router a path or a template is the sequence of its characters.
\* longest request path, in characters
MaxPathLen == 5

PathChars == {"/", "a", "b"}

\* the request paths: r.URL.Path of a request starts with "/"
RequestPaths ==
    UNION {{p \in [1..n -> PathChars] : p[1] = "/"} : n \in 1..MaxPathLen}

\* path templates of a specification document
RootTpl == <<"/">>
ATpl == <<"/", "a">>
ASlashTpl == <<"/", "a", "/">>
ABTpl == <<"/", "a", "b">>
ASlashBTpl == <<"/", "a", "/", "b">>
XTpl == <<"/", "{", "x", "}">>
AXTpl == <<"/", "a", "/", "{", "x", "}">>
XBTpl == <<"/", "{", "x", "}", "/", "b">>
XYTpl == <<"/", "{", "x", "}", "/", "{", "y", "}">>
BracedTpl == <<"/", "{", "a">>

RouterTemplates ==
    {RootTpl, ATpl, ASlashTpl, ABTpl, ASlashBTpl, XTpl, AXTpl, XBTpl, XYTpl, BracedTpl}

\* strings.Split(s, "/") from position i on, cur being the part begun
RECURSIVE SplitFrom(_, _, _)
SplitFrom(s, i, cur) ==
    IF i > Len(s) THEN <<cur>>
    ELSE IF s[i] = "/" THEN <<cur>> \o SplitFrom(s, i + 1, <<>>)
    ELSE SplitFrom(s, i + 1, Append(cur, s[i]))

\* strings.Split(s, "/")
Split(s) == SplitFrom(s, 1, <<>>)

\* strings.Trim(s, "/")
RECURSIVE Trim(_)
Trim(s) ==
    IF s = <<>> THEN s
    ELSE IF s[1] = "/" THEN Trim(Tail(s))
    ELSE IF s[Len(s)] = "/" THEN Trim(SubSeq(s, 1, Len(s) - 1))
    ELSE s

\* strings.HasPrefix(p, "{") && strings.HasSuffix(p, "}")
IsBraced(p) == Len(p) > 0 /\ p[1] = "{" /\ p[Len(p)] = "}"

\* the character class of a parameter group taken as any character
GroupAcceptsAny(c) == TRUE

\* the character class [^/] of the group ([^/]+)
GroupAccepts(c) == c # "/"

\* regexp.QuoteMeta(p): the pattern that matches the characters of p
QuoteMeta(p) == [i \in 1..Len(p) |-> [k |-> "lit", c |-> p[i]]]

\* strings.Join(out, "/") of the compiled parts from position i on
RECURSIVE JoinFrom(_, _)
JoinFrom(out, i) ==
    IF i > Len(out) THEN <<>>
    ELSE IF i = Len(out) THEN out[i]
    ELSE out[i] \o <<[k |-> "lit", c |-> "/"]>> \o JoinFrom(out, i + 1)

\* swaggerPathToRegex: the elements of "^/" + Join(out, "/") + "/?$", the
\* anchors being left to MatchString
swaggerPathToRegex(swaggerPath) ==
    LET parts == SelectSeq(Split(swaggerPath), LAMBDA p : p # <<>>)
        out == [i \in 1..Len(parts) |->
                   IF IsBraced(parts[i]) THEN <<[k |-> "group", c |-> ""]>>
                   ELSE QuoteMeta(parts[i])]
    IN <<[k |-> "lit", c |-> "/"]>> \o JoinFrom(out, 1)
           \o <<[k |-> "opt", c |-> "/"]>>

\* does the pattern from element i on match s from position j to its end
RECURSIVE MatchFrom(_, _, _, _)
MatchFrom(re, i, s, j) ==
    IF i > Len(re) THEN j > Len(s)
    ELSE CASE re[i].k = "lit" ->
                 j <= Len(s) /\ s[j] = re[i].c /\ MatchFrom(re, i + 1, s, j + 1)
           [] re[i].k = "opt" ->
                 \/ MatchFrom(re, i + 1, s, j)
                 \/ j <= Len(s) /\ s[j] = re[i].c /\ MatchFrom(re, i + 1, s, j + 1)
           [] OTHER ->
                 \E n \in 1..(Len(s) - j + 1) :
                     /\ \A m \in j..(j + n - 1) : GroupAccepts(s[m])
                     /\ MatchFrom(re, i + 1, s, j + n)

\* Regexp.MatchString of a pattern anchored by ^ and $
MatchString(re, s) == MatchFrom(re, 1, s, 1)

\* routeSpecificityScore
routeSpecificityScore(swaggerPath) ==
    LET parts == Split(Trim(swaggerPath))
        literals == {i \in 1..Len(parts) : ~IsBraced(parts[i])}
    IN 10 * Cardinality(literals) + Len(parts)

\* the comparison of FindRoute taking a route of equal score as well
ScoreBeatsOrTies(score, bestScore) == score >= bestScore

\* FindRoute: score > bestScore
ScoreBeats(score, bestScore) == score > bestScore

\* the loop of FindRoute from route i on; best is the position of the route
\* held so far, 0 for nil
RECURSIVE FindRouteFrom(_, _, _, _, _, _)
FindRouteFrom(routes, i, method, path, best, bestScore) ==
    IF i > Len(routes) THEN best
    ELSE IF routes[i].Method # method
            \/ ~MatchString(swaggerPathToRegex(routes[i].Swagger), path)
         THEN FindRouteFrom(routes, i + 1, method, path, best, bestScore)
    ELSE IF ScoreBeats(routeSpecificityScore(routes[i].Swagger), bestScore)
         THEN FindRouteFrom(routes, i + 1, method, path, i,
                            routeSpecificityScore(routes[i].Swagger))
    ELSE FindRouteFrom(routes, i + 1, method, path, best, bestScore)

\* RouterProvider.FindRoute: the position of the route returned, 0 for nil
FindRoute(method, path) ==
    FindRouteFrom(cfg.Routes, 1, ToUpper(method), path, 0, -1)

\* the routes NewRouterProvider may build, and the orders it may list them in
RouteUniverse ==
    {[Method |-> "GET", Swagger |-> t] :
         t \in {RootTpl, ATpl, ASlashTpl, ASlashBTpl, AXTpl, XBTpl}}
        \cup {[Method |-> "DELETE", Swagger |-> AXTpl]}

RouteLists ==
    {l \in [1..3 -> RouteUniverse] : \A i, j \in 1..3 : i # j => l[i] # l[j]}

FindRouteCall(method, path) ==
    /\ call = NoCall
    /\ call' = [op |-> "FindRoute", method |-> method, path |-> path,
                out |-> FindRoute(method, path)]
    /\ UNCHANGED <<cfg, stepIndex, startedAt, resetRules, resetByMethod, now, pc,
                   req, hist, armed, race>>

MatchStringCall(swaggerPath, path) ==
    /\ call = NoCall
    /\ call' = [op |-> "MatchString", tpl |-> swaggerPath, path |-> path,
                out |-> MatchString(swaggerPathToRegex(swaggerPath), path)]
    /\ UNCHANGED <<cfg, stepIndex, startedAt, resetRules, resetByMethod, now, pc,
                   req, hist, armed, race>>

\* The router of any route list: FindRoute calls.
InitRouter == \E d \in [Routes : RouteLists] : InitWith(d)

NextRouter ==
    \E method \in {"get", "GET", "DELETE"}, path \in RequestPaths :
        FindRouteCall(method, path)

SpecRouter == InitRouter /\ [][NextRouter]_vars

\* The compiled pattern of each template, matched against each request path.
InitRegex == InitWith([Routes |-> <<>>])

NextRegex == \E t \in RouterTemplates, path \in RequestPaths : MatchStringCall(t, path)

SpecRegex == InitRegex /\ [][NextRegex]_vars

(* ------------------------------ LoadScenario --------------------------- *)
\* the timelines a descriptor file may hold: up to TimeLen entries, in any
\* order of afterSec
FileTimelines ==
    UNION {{[i \in 1..n |-> [AfterSec |-> f[i], State |-> <<"phase", i>>,
                             File |-> <<"time", i>>]] : f \in [1..n -> 0..1]}
              : n \in 0..TimeLen}

\* what json.Unmarshal may decode a descriptor file into
DecodedScenarios ==
    [Version : 0..2, Mode : {"step", " step ", "time", "STEP", ""},
     PathParam : {"id", " id ", " ", ""},
     Sequence : {SubSeq(Sequence, 1, n) : n \in 0..1},
     Timeline : FileTimelines]

\* the descriptor files: one that cannot be read, one that json.Unmarshal
\* rejects, and the ones it decodes
ScenarioFiles ==
    {[readable |-> r, parses |-> FALSE, sc |-> CHOOSE d \in DecodedScenarios : TRUE]
         : r \in BOOLEAN}
        \cup {[readable |-> TRUE, parses |-> TRUE, sc |-> d] : d \in DecodedScenarios}

\* the timeline check of LoadScenario left out
TimelineUnchecked(timeline) == TRUE

\* the loop of LoadScenario over the timeline: no entry before its predecessor
TimelineSorted(timeline) ==
    \A i \in 2..Len(timeline) : ~(timeline[i].AfterSec < timeline[i - 1].AfterSec)

\* LoadScenario: the error, or the descriptor with its mode trimmed
LoadScenario(file) ==
    LET sc == [file.sc EXCEPT !.Mode = TrimSpace(@)]
        fail(msg) == [err |-> msg, isNil |-> TRUE, sc |-> file.sc]
    IN IF ~file.readable THEN fail("read")
       ELSE IF ~file.parses THEN fail("parse scenario.json")
       ELSE IF sc.Version # 1 THEN fail("unsupported scenario version")
       ELSE IF sc.Mode # "step" /\ sc.Mode # "time" THEN fail("invalid scenario mode")
       ELSE IF TrimSpace(sc.PathParam) = ""
            THEN fail("scenario.key.pathParam is required")
       ELSE IF sc.Mode = "step" /\ Len(sc.Sequence) = 0
            THEN fail("step mode requires non-empty sequence")
       ELSE IF sc.Mode = "time" /\ Len(sc.Timeline) = 0
            THEN fail("time mode requires non-empty timeline")
       ELSE IF sc.Mode = "time" /\ ~TimelineSorted(sc.Timeline)
            THEN fail("timeline must be sorted")
       ELSE [err |-> "", isNil |-> FALSE, sc |-> sc]

LoadScenarioCall(file) ==
    /\ call = NoCall
    /\ call' = [op |-> "LoadScenario", file |-> file, out |-> LoadScenario(file)]
    /\ UNCHANGED <<cfg, stepIndex, startedAt, resetRules, resetByMethod, now, pc,
                   req, hist, armed, race>>

\* LoadScenario on each descriptor file.
InitLoad == InitWith([ScenarioFilename |-> ScenarioFilename])

NextLoad == \E file \in ScenarioFiles : LoadScenarioCall(file)

SpecLoad == InitLoad /\ [][NextLoad]_vars

(* -------------------------------- loadFile ----------------------------- *)
\* strings.ToLower on the header names and the environment values that occur
\* in the model
ToLower(s) ==
    CASE s = "Content-Type" -> "content-type"
      [] s = "CONTENT-TYPE" -> "content-type"
      [] s = "X-Trace" -> "x-trace"
      [] s = "TRUE" -> "true"
      [] s = "Yes" -> "yes"
      [] s = "NO" -> "no"
      [] OTHER -> s

\* the headers objects of the envelopes: none, other headers only, a
\* content-type in each letter case, and two that differ in case only
EnvelopeHeaders ==
    {EmptyMap,
     [n \in {"X-Trace"} |-> "1"],
     [n \in {"content-type"} |-> "text/plain"],
     [n \in {"Content-Type"} |-> "text/plain"],
     [n \in {"CONTENT-TYPE", "X-Trace"} |-> "text/plain"],
     [n \in {"Content-Type", "content-type"} |-> "text/plain"]}

\* texts of JSON values: an object and an array as written by hand, and what
\* json.Marshal writes for them; the text of the empty object, of null and of
\* a string
JSONTexts ==
    {"{ b:1, a:2 }", "{a:2,b:1}", "[1, 2]", "[1,2]", "{}", "null", "'hello'"}

\* json.Marshal of what json.Unmarshal decodes a JSON text into: keys
\* sorted, no white space
Remarshal(t) ==
    CASE t = "{ b:1, a:2 }" -> "{a:2,b:1}"
      [] t = "[1, 2]" -> "[1,2]"
      [] OTHER -> t

\* the JSON value an envelope file carries for response bytes b: the bytes
\* when they are a JSON text, else the JSON string of them
AsJSONValue(b) ==
    CASE b \in JSONTexts -> b
      [] b = "hello" -> "'hello'"
      [] b = "" -> "''"
      [] OTHER -> "'envelope text'"

\* The sample files.  raw is the trimmed content; obj says isJSONObject(raw),
\* looks says looksLikeEnvelope(raw), decodes says json.Unmarshal into
\* Envelope succeeds, env is what it decodes (Body nil: hasBody FALSE).
NoEnvelope == [Status |-> 0, Headers |-> EmptyMap, hasBody |-> FALSE, Body |-> "null"]

RawFiles ==
    {[readable |-> TRUE, raw |-> t, obj |-> t \in {"{ b:1, a:2 }", "{a:2,b:1}", "{}"},
      looks |-> FALSE, decodes |-> FALSE, env |-> NoEnvelope]
         : t \in JSONTexts \cup {"", "hello"}}

EnvelopeFile(status, headers, hasBody, body) ==
    [readable |-> TRUE, raw |-> "envelope text", obj |-> TRUE, looks |-> TRUE,
     decodes |-> TRUE,
     env |-> [Status |-> status, Headers |-> headers, hasBody |-> hasBody,
              Body |-> body]]

SampleFiles ==
    RawFiles
        \cup {[readable |-> FALSE, raw |-> "", obj |-> FALSE, looks |-> FALSE,
               decodes |-> FALSE, env |-> NoEnvelope]}
        \cup {[readable |-> TRUE, raw |-> "envelope text", obj |-> TRUE,
               looks |-> TRUE, decodes |-> FALSE, env |-> NoEnvelope]}
        \cup {EnvelopeFile(st, h, FALSE, "null") :
                 st \in {0, 200, 404}, h \in EnvelopeHeaders}
        \cup {EnvelopeFile(st, h, TRUE, b) :
                 st \in {0, 200, 404}, h \in EnvelopeHeaders,
                 b \in {"{ b:1, a:2 }", "[1,2]", "'hello'"}}

\* headerGet comparing the names as they are written
headerGetExact(h, key) == key \in DOMAIN h

\* headerGet: its second result, whether some name equals key ignoring case
headerGet(h, key) == \E k \in DOMAIN h : ToLower(k) = ToLower(key)

\* the response for the raw content of a file
RawResponse(raw) ==
    [err |-> FALSE, Status |-> 200,
     Headers |-> [n \in {"content-type"} |-> "application/json"],
     Body |-> IF raw = "" THEN "{}" ELSE raw]

\* the envelope branch of loadFile leaving the body empty when the envelope
\* has none
EnvelopeResponseNoDefault(env) ==
    [err |-> FALSE,
     Status |-> IF env.Status = 0 THEN 200 ELSE env.Status,
     Headers |-> IF headerGet(env.Headers, "content-type") THEN env.Headers
                 ELSE MapPut(env.Headers, "content-type", "application/json"),
     Body |-> IF env.hasBody THEN Remarshal(env.Body) ELSE ""]

\* the envelope branch of loadFile
EnvelopeResponse(env) ==
    [err |-> FALSE,
     Status |-> IF env.Status = 0 THEN 200 ELSE env.Status,
     Headers |-> IF headerGet(env.Headers, "content-type") THEN env.Headers
                 ELSE MapPut(env.Headers, "content-type", "application/json"),
     Body |-> IF env.hasBody THEN Remarshal(env.Body) ELSE "{}"]

\* loadFile
loadFile(file) ==
    IF ~file.readable
    THEN [err |-> TRUE, Status |-> 0, Headers |-> EmptyMap, Body |-> ""]
    ELSE IF file.raw = "" THEN RawResponse("")
    ELSE IF file.obj /\ file.looks /\ file.decodes THEN EnvelopeResponse(file.env)
    ELSE RawResponse(file.raw)

\* the envelope file {status, headers, body} written from a response
StoredEnvelope(resp) ==
    EnvelopeFile(resp.Status, resp.Headers,
                 AsJSONValue(resp.Body) # "null", AsJSONValue(resp.Body))

\* one loadFile call
LoadFileCall(file) ==
    /\ call = NoCall
    /\ call' = [op |-> "loadFile", file |-> file, out |-> loadFile(file)]
    /\ UNCHANGED <<cfg, stepIndex, startedAt, resetRules, resetByMethod, now, pc,
                   req, hist, armed, race>>

\* the response of the last call stored as an envelope file, and that file
\* loaded
ReloadCall ==
    /\ call # NoCall
    /\ ~call.out.err
    /\ call' = [op |-> "reload", prev |-> call.file, first |-> call.out,
                file |-> StoredEnvelope(call.out),
                out |-> loadFile(StoredEnvelope(call.out))]
    /\ UNCHANGED <<cfg, stepIndex, startedAt, resetRules, resetByMethod, now, pc,
                   req, hist, armed, race>>

\* loadFile on each sample file, and on what it returned stored as an
\* envelope.
InitLoadFile == InitWith([BaseDir |-> <<>>])

NextLoadFile ==
    \/ \E file \in SampleFiles : LoadFileCall(file)
    \/ ReloadCall

SpecLoadFile == InitLoadFile /\ [][NextLoadFile]_vars

(* ----------------------- SpecProvider: the example --------------------- *)
\* the keys a responses container may declare; a response is named by its key
ResponseKeys == {"200", "201", "202", "204", "203", "250", "404", "2XX", "default"}

\* strconv.Atoi on the keys: the number and whether it parsed
Atoi(k) ==
    CASE k = "200" -> [n |-> 200, ok |-> TRUE]
      [] k = "201" -> [n |-> 201, ok |-> TRUE]
      [] k = "202" -> [n |-> 202, ok |-> TRUE]
      [] k = "203" -> [n |-> 203, ok |-> TRUE]
      [] k = "204" -> [n |-> 204, ok |-> TRUE]
      [] k = "250" -> [n |-> 250, ok |-> TRUE]
      [] k = "404" -> [n |-> 404, ok |-> TRUE]
      [] OTHER -> [n |-> 0, ok |-> FALSE]

\* strconv.Itoa on the numbers of the keys
Itoa(n) == CHOOSE k \in ResponseKeys : Atoi(k).ok /\ Atoi(k).n = n

\* the first key of the list, from position i on, that the container declares
RECURSIVE FirstDeclared(_, _, _)
FirstDeclared(resps, codes, i) ==
    IF i > Len(codes) THEN "nil"
    ELSE IF codes[i] \in resps THEN codes[i]
    ELSE FirstDeclared(resps, codes, i + 1)

\* sort.Ints read from its upper end
LargestOf(twos) == CHOOSE n \in twos : \A m \in twos : m <= n

\* sort.Ints(twos) and the first of the sorted numbers
SmallestOf(twos) == CHOOSE n \in twos : \A m \in twos : n <= m

\* pickBestResponseRef: the keys of the responses it may return, "nil" for no
\* response; the last branch ranges over a map in no fixed order
pickBestResponseRef(resps) ==
    LET preferred == FirstDeclared(resps, <<"200", "201", "202", "204">>, 1)
        twos == {Atoi(k).n : k \in {x \in resps : /\ Atoi(x).ok
                                                  /\ Atoi(x).n >= 200
                                                  /\ Atoi(x).n < 300}}
    IN IF preferred # "nil" THEN {preferred}
       ELSE IF twos # {} THEN {Itoa(SmallestOf(twos))}
       ELSE IF "default" \in resps THEN {"default"}
       ELSE IF resps # {} THEN resps
       ELSE {"nil"}

PickCall(resps) ==
    /\ call = NoCall
    /\ \E r \in pickBestResponseRef(resps) :
          call' = [op |-> "pickBestResponseRef", resps |-> resps, out |-> r]
    /\ UNCHANGED <<cfg, stepIndex, startedAt, resetRules, resetByMethod, now, pc,
                   req, hist, armed, race>>

\* the media types extractExampleFromResponse and generateFromResponseSchema
\* ask for, in their order
JSONLikeTypes == <<"application/json", "application/problem+json", "*/*">>

\* a media type object: its example ("none": nil), the values of its examples
\* map ("nil": an entry without value), whether it has a schema
MediaEntries ==
    [Example : {"none", "e"}, Examples : {{}, {"nil"}, {"x1", "x2"}}, Schema : BOOLEAN]

\* the content maps of a picked response
Contents ==
    UNION {[D \cup T -> MediaEntries] \cap
               {c \in [D \cup T -> MediaEntries] :
                    \A t \in T : c[t] = [Example |-> "e", Examples |-> {}, Schema |-> TRUE]}
              : D \in SUBSET {"application/json", "application/problem+json", "*/*"},
                T \in SUBSET {"text/plain"}}

\* what pickBestResponseRef handed over: no reference, a reference without
\* value, or a response with its content
PickedResponses ==
    {[ref |-> r, content |-> EmptyMap] : r \in {"nil", "novalue"}}
        \cup {[ref |-> "value", content |-> c] : c \in Contents}

\* resp.Content.Get(ct) on content maps without a key of the form type/*:
\* the key of the entry for a media type, "nil" for none; the exact key, else
\* the catch-all */*
ContentGet(content, mime) ==
    IF mime \in DOMAIN content THEN mime
    ELSE IF "*/*" \in DOMAIN content THEN "*/*"
    ELSE "nil"

\* extractExampleFromResponse from position i of the media types on: the
\* results it may return, the examples map being ranged over in no fixed order
RECURSIVE extractExampleFrom(_, _)
extractExampleFrom(content, i) ==
    IF i > Len(JSONLikeTypes) THEN {[kind |-> "none", from |-> "", value |-> ""]}
    ELSE LET k == ContentGet(content, JSONLikeTypes[i])
         IN IF k = "nil" THEN extractExampleFrom(content, i + 1)
            ELSE IF content[k].Example # "none"
                 THEN {[kind |-> "example", from |-> k, value |-> content[k].Example]}
            ELSE IF content[k].Examples \ {"nil"} # {}
                 THEN {[kind |-> "example", from |-> k, value |-> v]
                          : v \in content[k].Examples \ {"nil"}}
            ELSE extractExampleFrom(content, i + 1)

\* generateFromResponseSchema from position i of the media types on
RECURSIVE generateFromSchemaFrom(_, _)
generateFromSchemaFrom(content, i) ==
    IF i > Len(JSONLikeTypes) THEN [kind |-> "none", from |-> "", value |-> ""]
    ELSE LET k == ContentGet(content, JSONLikeTypes[i])
         IN IF k = "nil" \/ ~content[k].Schema
            THEN generateFromSchemaFrom(content, i + 1)
            ELSE [kind |-> "stub", from |-> k, value |-> "stub"]

\* the placeholder body {"ok":true}
OkBody == [kind |-> "ok", from |-> "", value |-> "{ok:true}"]

\* TryGetExampleBody trying the schema before the examples
ExampleBodiesSchemaFirst(picked) ==
    IF picked.ref # "value" THEN {OkBody}
    ELSE IF generateFromSchemaFrom(picked.content, 1).kind = "stub"
         THEN {generateFromSchemaFrom(picked.content, 1)}
    ELSE {IF b.kind = "example" THEN b ELSE OkBody
             : b \in extractExampleFrom(picked.content, 1)}

\* TryGetExampleBody once the response is picked: the bodies it may return
ExampleBodies(picked) ==
    IF picked.ref # "value" THEN {OkBody}
    ELSE {IF b.kind = "example" THEN b
          ELSE IF generateFromSchemaFrom(picked.content, 1).kind = "stub"
               THEN generateFromSchemaFrom(picked.content, 1)
          ELSE OkBody
             : b \in extractExampleFrom(picked.content, 1)}

ExampleCall(picked) ==
    /\ call = NoCall
    /\ \E b \in ExampleBodies(picked) :
          call' = [op |-> "TryGetExampleBody", picked |-> picked, out |-> b]
    /\ UNCHANGED <<cfg, stepIndex, startedAt, resetRules, resetByMethod, now, pc,
                   req, hist, armed, race>>

\* The spec example provider: the response picked from each responses
\* container, and the body built from each picked response.
InitExample == InitWith([SpecPath |-> <<>>])

NextExample ==
    \/ \E resps \in SUBSET ResponseKeys : PickCall(resps)
    \/ \E picked \in PickedResponses : ExampleCall(picked)

SpecExample == InitExample /\ [][NextExample]_vars

(* ----------------------------- GetEnvAsBool ---------------------------- *)
\* the boolean variables initConfig reads
BoolKeys == {"DEBUG_ROUTES", "SCENARIO_ENABLED"}

\* what the environment may hold for a variable: nothing, or a value, the
\* empty one among them
EnvValues ==
    {[set |-> FALSE, value |-> ""]}
        \cup {[set |-> TRUE, value |-> v] :
                 v \in {"", "1", "true", "TRUE", "Yes", "0", "NO", " true "}}

\* os.Getenv: the value, the empty string when the variable is not set
Getenv(key) == IF cfg.Env[key].set THEN cfg.Env[key].value ELSE ""

\* utils.GetEnvAsBool
GetEnvAsBool(key, defaultVal) ==
    LET val == ToLower(Getenv(key))
    IN IF val = "" THEN defaultVal
       ELSE val = "1" \/ val = "true" \/ val = "yes"

GetEnvAsBoolCall(key, defaultVal) ==
    /\ call = NoCall
    /\ call' = [op |-> "GetEnvAsBool", key |-> key, defaultVal |-> defaultVal,
                out |-> GetEnvAsBool(key, defaultVal)]
    /\ UNCHANGED <<cfg, stepIndex, startedAt, resetRules, resetByMethod, now, pc,
                   req, hist, armed, race>>

\* GetEnvAsBool in each environment, for each variable and default.
InitEnv == \E e \in [BoolKeys -> EnvValues] : InitWith([Env |-> e])

NextEnv == \E key \in BoolKeys, defaultVal \in BOOLEAN : GetEnvAsBoolCall(key, defaultVal)

SpecEnv == InitEnv /\ [][NextEnv]_vars

(* --------------------- Server.handle: the whole request ---------------- *)
\* the routes of the deployments that serve requests end to end
ServedTemplates == {TStatus, TScan}

\* rt.Swagger of the route FindRoute returns for a routed path
RouteSwagger(path) ==
    CHOOSE tpl \in ServedTemplates :
        /\ Len(tpl) = Len(path)
        /\ matchTemplatePathSuffix(tpl, path)

\* handle calling the sample provider before it validates the body
ReachesProviderUnvalidated(method, path, body) ==
    /\ ~(method = "GET" /\ path \in HealthPaths)
    /\ cfg.Routed /\ path \notin HealthPaths

\* the early returns of handle: does the request get to
\* sampleProvider.ResolveAndLoad
ReachesProvider(method, path, body) ==
    /\ ~(method = "GET" /\ path \in HealthPaths)
    /\ cfg.Routed /\ path \notin HealthPaths
    /\ ~(/\ cfg.ValidationMode = "required"
         /\ HasRequiredBodyParam
         /\ (IsEmptyBody(body).err \/ IsEmptyBody(body).empty))

\* Server.handle for one request, up to the first unlock of the resolver when
\* a scenario serves it: the early returns, or ResolveAndLoad through
\* SampleProvider.ResolvePath; load is what loading the resolved file gives
ServeRequest(method, path, body, load) ==
    /\ \A q \in Procs : pc[q] = "idle"
    /\ call' = [op |-> "handle", method |-> method, path |-> path, body |-> body,
                load |-> load, out |-> handle(method, path, body, load)]
    /\ IF ReachesProvider(method, path, body)
       THEN LET swaggerTpl == RouteSwagger(path)
            IN IF HasDescriptor(swaggerTpl)
               THEN Registration(Handler, ScenarioAt(swaggerTpl), ToUpper(method),
                                 swaggerTpl, path)
               ELSE ResetSlots(ToUpper(method), path)
       ELSE UNCHANGED <<cfg, stepIndex, startedAt, resetRules, resetByMethod, now,
                        pc, req, hist, armed, race>>

\* The server of a deployment with the step scenario of scans/{id}/status
\* and samples only in scans/{id}: requests handled one at a time from the
\* dispatcher to the resolver.
InitServe ==
    \E d \in [Loop : {FALSE}, RepeatLast : {TRUE}, ScanDesc : {FALSE},
              Horizon : {0}, Shape : {"ramp"}, LastTick : {MaxNow},
              ValidationMode : {"none", "required"}, FallbackMode : {"none"},
              Routed : BOOLEAN, OpDeclared : {TRUE}, BodyRequired : BOOLEAN,
              HasResponses : {FALSE}] :
        InitWith(d)

NextServe ==
    \/ \E method \in Methods,
          path \in {<<"health", "alive">>} \cup
                   {Concrete(tpl, v) : tpl \in ServedTemplates, v \in KeyVals},
          body \in {b \in Bodies : b.text \in {"", "{}"}},
          load \in {l \in LoadResults : l.status \in {0, 400}} :
          ServeRequest(method, path, body, load)
    \/ resolveStep(Handler)

SpecServe == InitServe /\ [][NextServe]_vars

(* ------------------- ResolveScenarioFile: key extraction --------------- *)
\* does ResolveScenarioFile return the error "cannot extract key path param"
KeyMissing(sc, swaggerTpl, actualPath) ==
    LET kv == extractPathParam(swaggerTpl, actualPath, sc.KeyParam)
    IN ~kv.ok \/ TrimSpace(kv.val) = ""

\* ResolveScenarioFile with its arguments and its key-extraction error
\* observed
ResolveScenarioFileCall(p, sc, method0, swaggerTpl, actualPath) ==
    /\ Registration(p, sc, method0, swaggerTpl, actualPath)
    /\ call' = [op |-> "ResolveScenarioFile", tpl |-> swaggerTpl,
                path |-> actualPath, want |-> sc.KeyParam,
                err |-> KeyMissing(sc, swaggerTpl, actualPath)]

\* key.pathParam of the descriptors: the parameter of the route, and one the
\* route does not have
KeyParams == {"id", "scan_id"}

\* the paths of the calls: of the template, with a key value that is empty
\* or blank, and of another template
KeyPaths ==
    {Concrete(TStatus, v) : v \in KeyVals \cup {"", " "}} \cup {Concrete(TScan, "1")}

\* The resolver alone, on the step scenario of scans/{id}/status keyed by
\* either parameter name: observed ResolveScenarioFile calls with paths that
\* yield a key and paths that do not, and TryResetByRequest calls.
InitKey ==
    \E d \in [Loop : {FALSE}, RepeatLast : {TRUE}, ScanDesc : {FALSE},
              Horizon : {0}, Shape : {"ramp"}, LastTick : {MaxNow}] :
        InitWith(d)

NextKey ==
    \/ \E p \in Procs, want \in KeyParams, path \in KeyPaths :
          ResolveScenarioFileCall(p, [ScenarioAt(TStatus) EXCEPT !.KeyParam = want],
                                  "GET", TStatus, path)
    \/ \E p \in Procs : resolveStep(p)
    \/ \E v \in KeyVals : TryResetByRequestCall("DELETE", Concrete(TScan, v))

SpecKey == InitKey /\ [][NextKey]_vars

\* The resolver alone, on the time scenario of scans/{id}/results whose
\* startOn names GET: concurrent ResolveScenarioFile calls of either method
\* for one key, observed by resolveTime, direct TryResetByRequest calls and
\* the clock.
InitStart ==
    \E d \in [Loop : BOOLEAN, RepeatLast : {TRUE}, ScanDesc : {FALSE},
              Horizon : {0}, Shape : {"ramp", "late"}, LastTick : {MaxNow}] :
        InitWith(d)

NextStart ==
    \/ \E p \in Procs, m \in Methods :
          ResolveScenarioFile(p, ScenarioAt(TResults), m, TResults,
                              Concrete(TResults, TimeKeyVal))
    \/ \E p \in Procs : resolveTimeCall(p)
    \/ TryResetByRequest("DELETE", Concrete(TScan, TimeKeyVal))
    \/ Tick

SpecStart == InitStart /\ [][NextStart]_vars

(* --------------- SampleProvider.ResolvePath: the chosen file ----------- *)
\* the end of the scenario block of ResolvePath going on without the
\* utils.FileExists check
ServedFileUnchecked(file) == [err |-> "", file |-> file]

\* the end of the scenario block of ResolvePath: the file the resolver
\* chose, if it exists in the folder of the descriptor
ServedFile(file) ==
    IF file \in cfg.Present THEN [err |-> "", file |-> file]
    ELSE [err |-> "scenario file not found", file |-> <<>>]

\* no ResolvePath observed just before
NoBefore == [k |-> <<>>, idx |-> -1, err |-> "", adv |-> FALSE]

\* ResolvePath of a scenario route from the lock of resolveStep on, observed:
\* the key, the index served, whether the request matched advanceOn, the
\* result, and the same of the ResolvePath observed just before
ResolvePathStep(p) ==
    LET k == req[p].k
        sc == ScenarioAt(req[p].tpl)
        idx == StepServed(k, sc)
    IN /\ StepSection(p)
       /\ call' = [op |-> "ResolvePathStep", k |-> k, idx |-> idx,
                   adv |-> matchesAny(sc.AdvanceOn, req[p].method, <<>>),
                   out |-> ServedFile(sc.Sequence[idx + 1].File),
                   before |-> IF call.op = "ResolvePathStep"
                              THEN [k |-> call.k, idx |-> call.idx,
                                    err |-> call.out.err, adv |-> call.adv]
                              ELSE NoBefore]

\* The provider and the resolver on the step scenario of scans/{id}/status
\* in a folder that holds all the files the sequence names, all but the
\* first, or none: concurrent GET requests of the scenario route, and
\* observed resets.
InitFiles ==
    \E d \in [Loop : BOOLEAN, RepeatLast : {TRUE}, ScanDesc : {FALSE},
              Horizon : {0}, Shape : {"ramp"}, LastTick : {MaxNow},
              Present : {{Sequence[i].File : i \in from..SeqLen} :
                            from \in {1, 2, SeqLen + 1}}] :
        InitWith(d)

NextFiles ==
    \/ \E p \in Procs, v \in KeyVals :
          ResolvePath(p, "GET", TStatus, Concrete(TStatus, v))
    \/ \E p \in Procs : ResolvePathStep(p)
    \/ TryResetByRequestCall("DELETE", Concrete(TScan, TimeKeyVal))

SpecFiles == InitFiles /\ [][NextFiles]_vars

\* behavior.resetOn lists whose rules name the parameter scan_id, have no
\* parameter, or name both scan_id and the key parameter id
ParamResetLists ==
    {<<[Method |-> "DELETE", Path |-> <<"scans", "{scan_id}">>]>>,
     <<[Method |-> "DELETE", Path |-> <<"scans", "all">>]>>,
     <<[Method |-> "DELETE", Path |-> <<"scans", "{scan_id}">>],
       [Method |-> "DELETE", Path |-> TScan]>>}

\* The resolver alone, on the step scenario of scans/{id}/status keyed by id
\* with one of these resetOn lists: concurrent ResolveScenarioFile calls, and
\* observed TryResetByRequest calls on scans/<value> and scans/all.
InitParam ==
    \E d \in [Loop : {FALSE}, RepeatLast : {TRUE}, ScanDesc : {FALSE},
              Horizon : {0}, Shape : {"ramp"}, LastTick : {MaxNow},
              AdvanceOn : {<<[Method |-> "GET", Path |-> <<>>]>>},
              ResetOn : ParamResetLists] :
        InitWith(d)

NextParam ==
    \/ \E p \in Procs, v \in KeyVals :
          ResolveScenarioFile(p, ScenarioAt(TStatus), "GET", TStatus,
                              Concrete(TStatus, v))
    \/ \E p \in Procs : resolveStep(p)
    \/ \E path \in {Concrete(TScan, v) : v \in KeyVals} \cup {<<"scans", "all">>} :
          TryResetByRequestCall("DELETE", path)

SpecParam == InitParam /\ [][NextParam]_vars

\* The resolver alone, on the step scenario of scans/{id}/status and the
\* time scenario of scans/{id}/results, which declare the same reset rule:
\* concurrent ResolveScenarioFile calls of both, and observed
\* TryResetByRequest calls on the route of the rule and on the prefixed one.
InitShared ==
    \E d \in [Loop : {TRUE}, RepeatLast : {TRUE}, ScanDesc : {FALSE},
              Horizon : {0}, Shape : {"ramp"}, LastTick : {MaxNow}] :
        InitWith(d)

NextShared ==
    \/ \E p \in Procs, tpl \in {TStatus, TResults}, v \in KeyVals :
          ResolveScenarioFile(p, ScenarioAt(tpl), "GET", tpl, Concrete(tpl, v))
    \/ \E p \in Procs : resolveStep(p)
    \/ \E p \in Procs : resolveTime(p)
    \/ \E tpl \in {TScan, TApiScan} :
          TryResetByRequestCall("DELETE", Concrete(tpl, TimeKeyVal))

SpecShared == InitShared /\ [][NextShared]_vars

(* ------------------------ work done under e.mu ------------------------- *)
\* does matchesAny reach its logger.GetLogger().Info call: some rule from i
\* on has the method and a path, and no rule before it returned true
RECURSIVE matchesAnyLogs(_, _, _, _)
matchesAnyLogs(rules, method, actualPath, i) ==
    IF i > Len(rules) THEN FALSE
    ELSE IF ToUpper(TrimSpace(rules[i].Method)) # ToUpper(method)
         THEN matchesAnyLogs(rules, method, actualPath, i + 1)
    ELSE IF rules[i].Path = <<>> THEN FALSE
    ELSE TRUE

\* the kinds of work resolveStep does for worker p between e.mu.Lock() and
\* the deferred e.mu.Unlock(): reads and writes of stepIndex, and what
\* matchesAny does
StepLockedWork(p) ==
    {"map"} \cup (IF matchesAnyLogs(ScenarioAt(req[p].tpl).AdvanceOn,
                                     req[p].method, <<>>, 1)
                  THEN {"log"} ELSE {})

(* ------------------- SpecProvider: the schema stub --------------------- *)
\* the depth above which genFromSchemaRef returns {} at once
GenDepthCap == 6

\* the schemas of a document and what a *openapi3.SchemaRef may be: one of
\* them, or nil
SchemaNames == {"A", "B"}
SchemaRefs == SchemaNames \cup {"nil"}

\* a schema: an array of items `next`; an object with additionalProperties
\* `next`, if not nil; an object with one property `next`; an object with
\* the properties A and B; a string; a schema with an enum
SchemaKinds == {"array", "additional", "object", "objectAB", "string", "enum"}

\* the schema graphs: any schema may refer to itself or to the other one
SchemaGraphs == [SchemaNames -> [kind : SchemaKinds, next : SchemaRefs]]

\* the recursion without the depth test
GenCallsUncapped(ref, depth) ==
    IF ref = "nil" THEN {}
    ELSE LET s == cfg.Graph[ref]
         IN CASE s.kind = "enum" -> {}
              [] s.kind = "array" -> IF s.next = "nil" THEN {} ELSE {s.next}
              [] s.kind = "additional" -> IF s.next = "nil" THEN {} ELSE {s.next}
              [] s.kind = "object" -> {s.next}
              [] s.kind = "objectAB" -> SchemaNames
              [] OTHER -> {}

\* the refs genFromSchemaRef(ref, visiting, depth) passes on, each with
\* depth + 1, directly or through genObject: none above the cap, for a nil
\* ref, an enum or a primitive; the items of an array; the
\* additionalProperties schema or else every property of an object
GenCalls(ref, depth) ==
    IF depth > GenDepthCap \/ ref = "nil" THEN {}
    ELSE LET s == cfg.Graph[ref]
         IN CASE s.kind = "enum" -> {}
              [] s.kind = "array" -> IF s.next = "nil" THEN {} ELSE {s.next}
              [] s.kind = "additional" -> IF s.next = "nil" THEN {} ELSE {s.next}
              [] s.kind = "object" -> {s.next}
              [] s.kind = "objectAB" -> SchemaNames
              [] OTHER -> {}

\* what the call returns when it passes nothing on: {} above the cap or for
\* a nil ref, else the value of the schema itself
GenLeaf(ref, depth) ==
    IF depth > GenDepthCap \/ ref = "nil" THEN "{}"
    ELSE IF GenCalls(ref, depth) = {} THEN "value"
    ELSE "nested"

\* generateFromResponseSchema: genFromSchemaRef(mt.Schema, {}, 0)
GenStart(ref) ==
    /\ call = NoCall
    /\ call' = [op |-> "genFromSchemaRef", ref |-> ref, depth |-> 0, nested |-> 0,
                out |-> GenLeaf(ref, 0)]
    /\ UNCHANGED <<cfg, stepIndex, startedAt, resetRules, resetByMethod, now, pc,
                   req, hist, armed, race>>

\* one of the calls the call in progress makes: the generation goes one
\* call deeper along that path
GenDescend ==
    /\ call.op = "genFromSchemaRef"
    /\ \E ref \in GenCalls(call.ref, call.depth) :
          call' = [op |-> "genFromSchemaRef", ref |-> ref, depth |-> call.depth + 1,
                   nested |-> call.nested + 1,
                   out |-> GenLeaf(ref, call.depth + 1)]
    /\ UNCHANGED <<cfg, stepIndex, startedAt, resetRules, resetByMethod, now, pc,
                   req, hist, armed, race>>

\* The stub generator on any graph of two schemas: every path of nested
\* calls from the schema of a media type.
InitGen == \E g \in SchemaGraphs : InitWith([Graph |-> g])

NextGen ==
    \/ \E ref \in SchemaNames : GenStart(ref)
    \/ GenDescend

SpecGen == InitGen /\ [][NextGen]_vars

(* ------------------------------- claims -------------------------------- *)
\* the runtime keys of the step scenario of scans/{id}/status
StepKeys == {scenarioRuntimeKey(TStatus, v) : v \in KeyVals}

\* the sequence of the scenario a runtime key belongs to
SeqOfKey(k) ==
    (ScenarioAt(CHOOSE t \in Templates : UpperTpl(t) = k[1])).Sequence

\* the entry as ResolveScenarioFile returns it: file and state
Served(e) == [State |-> e.State, File |-> e.File]

\* C1: in step mode with loop=false, whatever repeatLast is, when every
\* request since the key was fresh matched advanceOn, the i-th resolve
\* returned the file and state of sequence[min(i, n) - 1] (0-based), n the
\* length of the sequence.
C1_StepClampsAtLast ==
    ~cfg.Loop =>
        \A k \in StepKeys :
            hist[k].n >= 1 =>
                LET i == hist[k].n
                    j == IF i < SeqLen THEN i ELSE SeqLen
                IN /\ hist[k].idx = j - 1
                   /\ hist[k].entry = Served(Sequence[j])

\* C1 witness: with loop=false, more resolves than the sequence has entries
\* were served on one key, all matching advanceOn, with repeatLast false
C1_Witness ==
    /\ ~cfg.Loop
    /\ ~cfg.RepeatLast
    /\ \E k \in StepKeys : hist[k].n > SeqLen

\* C2: in step mode with loop=true, when every request since the key was
\* fresh matched advanceOn, the i-th resolve returned the file and state of
\* sequence[(i - 1) mod n].
C2_StepWraps ==
    cfg.Loop =>
        \A k \in StepKeys :
            hist[k].n >= 1 =>
                LET j == (hist[k].n - 1) % SeqLen
                IN /\ hist[k].idx = j
                   /\ hist[k].entry = Served(Sequence[j + 1])

\* C2 witness: with loop=true the resolve after the last entry was served,
\* and it served the first entry again
C2_Witness ==
    /\ cfg.Loop
    /\ \E k \in StepKeys : hist[k].n = SeqLen + 1 /\ hist[k].idx = 0

\* C3: the stored step index of every runtime key is within
\* [0, len(sequence) - 1], and every resolve served an index in that range,
\* under every interleaving of ResolveScenarioFile and TryResetByRequest.
C3_IndexInRange ==
    /\ \A k \in DOMAIN stepIndex :
          stepIndex[k] >= 0 /\ stepIndex[k] < Len(SeqOfKey(k))
    /\ \A k \in StepKeys :
          hist[k].idx >= 0 =>
              /\ hist[k].idx < Len(SeqOfKey(k))
              /\ hist[k].entry = Served(SeqOfKey(k)[hist[k].idx + 1])

\* C3 witness: a key stored at the last index while the other key was reset
\* after being served and a resolve is in flight
C3_Witness ==
    \E k \in StepKeys, k2 \in StepKeys :
        /\ k2 # k
        /\ k \in DOMAIN stepIndex
        /\ stepIndex[k] = SeqLen - 1
        /\ hist[k].idx = SeqLen - 1
        /\ k2 \in armed
        /\ \E p \in Procs : pc[p] = "step"

\* C4: between two resets of a key the served indices never skip an entry:
\* each resolve serves the index the previous one served or the next one,
\* except for the wrap from the last index to 0 with loop=true; with
\* loop=false the served index never decreases.
C4_NoSkip ==
    [][\A k \in StepKeys :
          (hist[k].idx >= 0 /\ hist'[k].idx >= 0) =>
              LET prev == hist[k].idx
                  cur == hist'[k].idx
              IN /\ \/ cur = prev
                    \/ cur = prev + 1
                    \/ cfg.Loop /\ prev = SeqLen - 1 /\ cur = 0
                 /\ ~cfg.Loop => cur >= prev]_vars

\* C4 witness: after requests of which some did not match advanceOn, the
\* last index was served twice in a row without a reset in between
C4_Witness ==
    /\ ~cfg.Loop
    /\ \E k \in StepKeys :
          /\ hist[k].n = -1
          /\ hist[k].idx = SeqLen - 1
          /\ k \in DOMAIN stepIndex
          /\ stepIndex[k] = SeqLen - 1

\* C5: N concurrent resolves of one fresh key, all matching advanceOn, with
\* N at most len(sequence), serve the indices 0..N-1, each exactly once.
C5_ConcurrentDistinct ==
    race.k # <<>> =>
        /\ Len(race.got) + Cardinality(race.members) = NumProcs
        /\ race.got = [i \in 1..Len(race.got) |-> i - 1]

\* C5 witness: a batch of NumProcs concurrent resolves of one fresh key has
\* completed
C5_Witness ==
    /\ race.k # <<>>
    /\ race.members = {}
    /\ Len(race.got) = NumProcs
    /\ NumProcs <= SeqLen

\* the slot of template tpl and key value v: its step index and its start
\* timestamp, -1 where there is none
SlotOf(si, sa, tpl, v) ==
    <<MapGet(si, scenarioRuntimeKey(tpl, v), -1),
      MapGet(sa, scenarioRuntimeKey(tpl, v), -1)>>

\* the key value of the request worker p has in flight
KeyValueOf(p) == AlignedValue(req[p].tpl, req[p].path, "id")

\* C6: a ResolveScenarioFile for template T and key value v changes the
\* step index and start timestamp of (T, v) only: its registration step
\* changes no slot, and its resolveStep or resolveTime step leaves the slot
\* of every other key value of T and of every other template unchanged.
C6_KeyIsolation ==
    [][\A p \in Procs :
          /\ (pc[p] = "idle" /\ pc'[p] # "idle") =>
                (stepIndex' = stepIndex /\ startedAt' = startedAt)
          /\ (pc[p] # "idle" /\ pc'[p] = "idle") =>
                \A tpl \in Templates, v \in KeyVals :
                    (tpl # req[p].tpl \/ v # KeyValueOf(p)) =>
                        SlotOf(stepIndex', startedAt', tpl, v)
                            = SlotOf(stepIndex, startedAt, tpl, v)]_vars

\* C6 witness: the two key values of the step scenario and the two of the
\* time scenario hold four different slots
C6_Witness ==
    /\ SlotOf(stepIndex, startedAt, TStatus, "1") = <<SeqLen - 1, -1>>
    /\ SlotOf(stepIndex, startedAt, TStatus, "2") = <<1, -1>>
    /\ SlotOf(stepIndex, startedAt, TResults, "1") = <<-1, 0>>
    /\ SlotOf(stepIndex, startedAt, TResults, "2") = <<-1, MaxNow>>

\* C7: after TryResetByRequest returned true for a request that matches a
\* registered reset rule of a scenario with key value v, the first
\* subsequent resolve of that scenario for v serves sequence[0] in step mode
\* and, in time mode, finds no start timestamp and starts a new timer.
C7_ResetRestarts ==
    [][\A p \in Procs :
          (pc[p] # "idle" /\ pc'[p] = "idle" /\ req[p].k \in armed) =>
              IF pc[p] = "step"
              THEN StepServed(req[p].k, ScenarioAt(req[p].tpl)) = 0
              ELSE /\ req[p].k \notin DOMAIN startedAt
                   /\ startedAt'[req[p].k] = now]_vars

\* C8: TryResetByRequest returns true iff a runtime slot (a step index or a
\* start timestamp) of a key it matched existed and the call deleted it.
C8_TrueIffDeleted ==
    [][\A m \in Methods, v \in KeyVals :
          TryResetByRequest(m, Concrete(TScan, v)) =>
              (ResetAny(m, Concrete(TScan, v))
                 <=> \E k \in ResetKeys(m, Concrete(TScan, v)) :
                        /\ k \in DOMAIN stepIndex \/ k \in DOMAIN startedAt
                        /\ k \notin DOMAIN stepIndex'
                        /\ k \notin DOMAIN startedAt')]_vars

\* C9: whenever the provider handles a request whose method and path match
\* a registered resetOn rule of a scenario, the slot of that scenario for
\* the key in the path is deleted, whether or not the folder of the
\* request's own template holds a scenario descriptor.
C9_ProviderResets ==
    [][\A m \in Methods, tpl \in Templates, v \in KeyVals :
          ResolvePath(Handler, m, tpl, Concrete(tpl, v)) =>
              \A k \in Addressed(m, Concrete(tpl, v)) \cap AllKeys :
                  k \notin DOMAIN stepIndex' /\ k \notin DOMAIN startedAt']_vars

\* C10: TryResetByRequest deletes the slot of every binding registered
\* under the request method whose rule template equals the last segments of
\* the concrete path, with the key value of the aligned segment, also when
\* the path has more segments than the template.
C10_SuffixDeletes ==
    [][\A m \in Methods, tpl \in {TScan, TApiScan}, v \in KeyVals :
          TryResetByRequest(m, Concrete(tpl, v)) =>
              \A i \in 1..Len(ResetList(m)) :
                  LET it == ResetList(m)[i]
                      k == scenarioRuntimeKey(it.binding.ScenarioTpl,
                              AlignedValue(it.rule.PathTpl, Concrete(tpl, v),
                                           it.binding.KeyParam))
                  IN matchTemplatePathSuffix(it.rule.PathTpl, Concrete(tpl, v)) =>
                        k \notin DOMAIN stepIndex' /\ k \notin DOMAIN startedAt']_vars

\* the runtime key of the time scenario that SpecTime resolves
TimeKey == scenarioRuntimeKey(TResults, TimeKeyVal)

\* the afterSec of the final entry of a timeline
TotalOf(tl) == tl[Len(tl)].AfterSec

Min(a, b) == IF a < b THEN a ELSE b

\* the position of the last entry of tl whose afterSec is at most e, the
\* first position when there is none
LastAtOrBefore(tl, e) ==
    LET S == {i \in 1..Len(tl) : tl[i].AfterSec <= e}
    IN IF S = {} THEN 1 ELSE CHOOSE i \in S : \A j \in S : j <= i

\* C11: in time mode with loop=false, whatever repeatLast is, a resolve at e
\* whole elapsed seconds returns the last timeline entry whose afterSec is at
\* most min(e, total), the final entry once e >= total, and the first entry
\* when no entry has afterSec <= e.
C11_TimeSelectsLastReached ==
    (~cfg.Loop /\ hist[TimeKey].idx >= 0) =>
        LET tl == TimelineOf(cfg.Shape)
            e == hist[TimeKey].elapsed
            j == LastAtOrBefore(tl, Min(e, TotalOf(tl)))
        IN /\ hist[TimeKey].idx = j - 1
           /\ hist[TimeKey].entry = Served(tl[j])
           /\ e >= TotalOf(tl) => hist[TimeKey].entry = Served(tl[Len(tl)])
           /\ (\A i \in 1..Len(tl) : tl[i].AfterSec > e) =>
                 hist[TimeKey].entry = Served(tl[1])

\* C11 witness: with loop=false and repeatLast=false a resolve later than
\* the end of the timeline whose first entry is at 1 s was served
C11_Witness ==
    /\ ~cfg.Loop
    /\ ~cfg.RepeatLast
    /\ cfg.Shape = "late"
    /\ hist[TimeKey].elapsed > TotalOf(TimelineOf(cfg.Shape))
    /\ hist[TimeKey].idx = TimeLen - 1

\* C12: in time mode with loop=true and total > 0 the entry returned at e
\* elapsed seconds is the one selected for e mod (total + 1), the final
\* entry only when e mod (total + 1) = total; with total = 0 the loop flag
\* has no effect.
C12_TimeLoopPeriod ==
    (cfg.Loop /\ hist[TimeKey].idx >= 0) =>
        LET tl == TimelineOf(cfg.Shape)
            total == TotalOf(tl)
            e == hist[TimeKey].elapsed
        IN IF total > 0
           THEN /\ hist[TimeKey].entry
                      = Served(tl[LastAtOrBefore(tl, e % (total + 1))])
                /\ hist[TimeKey].idx = Len(tl) - 1 => e % (total + 1) = total
           ELSE hist[TimeKey].entry = Served(tl[LastAtOrBefore(tl, Min(e, total))])

\* C12 witness: with loop=true a resolve one period after the start was
\* served, and it returned the first entry again
C12_Witness ==
    /\ cfg.Loop
    /\ cfg.Shape = "late"
    /\ hist[TimeKey].elapsed = TotalOf(TimelineOf(cfg.Shape)) + 1
    /\ hist[TimeKey].idx = 0

\* C13: a start timestamp is written only when the key has none, with the
\* time of that resolve; no step changes an existing start timestamp other
\* than by deleting it, and the elapsed values the resolves of a key observe
\* between two resets never decrease.
C13_StartSetOnce ==
    [][\A k \in AllKeys :
          /\ (k \in DOMAIN startedAt /\ k \in DOMAIN startedAt') =>
                startedAt'[k] = startedAt[k]
          /\ (k \notin DOMAIN startedAt /\ k \in DOMAIN startedAt') =>
                startedAt'[k] = now
          /\ (hist[k].idx >= 0 /\ hist'[k].idx >= 0) =>
                hist'[k].elapsed >= hist[k].elapsed]_vars

\* C13 witness: a key started after the clock had advanced was resolved
\* again a second or more later while another resolve of it is in flight
C13_Witness ==
    /\ TimeKey \in DOMAIN startedAt
    /\ startedAt[TimeKey] > 0
    /\ hist[TimeKey].elapsed >= 1
    /\ \E p \in Procs : pc[p] = "time" /\ req[p].k = TimeKey

\* the descriptor path of the route of SpecProvider
ScanDescriptor == ScenarioPathForSwagger(TScan, ScenarioFilename)

\* C14: with scenarios enabled and a descriptor present for the endpoint,
\* ResolvePath returns the file chosen by the resolver or an error; it is an
\* error whenever the descriptor fails to load, no resolver is configured,
\* the resolve fails, or the chosen file is missing.
C14_ScenarioExclusive ==
    (call.op = "ResolvePath" /\ cfg.ScenarioEnabled /\ ScanDescriptor \in cfg.Files) =>
        LET chosen == Append(Dir(ScanDescriptor), call.scen.file)
            fails == \/ ~cfg.DescLoads
                     \/ ~cfg.EngineSet
                     \/ call.scen.err
                     \/ chosen \notin cfg.Files
        IN /\ fails => call.out.err # ""
           /\ ~fails => call.out = [err |-> "", path |-> chosen]

\* C14 witness: the resolver chose a file that is missing while the folder
\* file and the flat file of the request both exist
C14_Witness ==
    /\ call.op = "ResolvePath"
    /\ cfg.ScenarioEnabled /\ ScanDescriptor \in cfg.Files
    /\ cfg.DescLoads /\ cfg.EngineSet /\ cfg.Layout = "auto"
    /\ ~call.scen.err
    /\ Append(TScan, call.scen.file) \notin cfg.Files
    /\ Append(TScan, MethodFile(ToUpper(call.method))) \in cfg.Files
    /\ <<swaggerPathToSampleName(call.method)>> \in cfg.Files
    /\ call.out.err # ""

\* the folder file and the flat file of the observed request
FolderFile == Append(call.tpl, MethodFile(ToUpper(call.method)))
FlatFile == <<swaggerPathToSampleName(call.method)>>

\* C15: without a descriptor, ResolvePath returns the first existing
\* candidate in layout order and a sample-missing error when none exists:
\* auto (or empty) tries the folder file and then the flat file, folders only
\* the folder file, flat only the flat file.
C15_LayoutOrder ==
    (/\ call.op = "ResolvePath"
     /\ ~(cfg.ScenarioEnabled /\ ScanDescriptor \in cfg.Files)
     /\ cfg.Layout \in {"", "auto", "folders", "flat"}) =>
        LET tryFolder == cfg.Layout \in {"", "auto", "folders"}
            tryFlat == cfg.Layout \in {"", "auto", "flat"}
        IN call.out =
              IF tryFolder /\ FolderFile \in cfg.Files
              THEN [err |-> "", path |-> FolderFile]
              ELSE IF tryFlat /\ FlatFile \in cfg.Files
              THEN [err |-> "", path |-> FlatFile]
              ELSE [err |-> "no sample file found", path |-> <<>>]

\* C15 witness: with the empty layout and both files present a lower-case
\* method got the folder file
C15_Witness ==
    /\ call.op = "ResolvePath"
    /\ ~cfg.ScenarioEnabled
    /\ cfg.Layout = ""
    /\ call.method = "get"
    /\ FolderFile \in cfg.Files /\ FlatFile \in cfg.Files
    /\ call.out = [err |-> "", path |-> FolderFile]

\* the observed request was routed: it is no health path and a route matched
HandleRouted ==
    /\ call.op = "handle"
    /\ cfg.Routed
    /\ call.path \notin HealthPaths

\* the observed request has no usable body: none, unreadable, or only white
\* space
BodyMissing ==
    \/ call.body.kind \in {"nil", "unreadable"}
    \/ call.body.text \in {"", " "}

\* the observed request is one that validation turns away
ValidationRejects ==
    /\ cfg.ValidationMode = "required"
    /\ cfg.OpDeclared /\ cfg.BodyRequired
    /\ BodyMissing

\* C16: when ResolveAndLoad fails for a routed request the response is 200
\* application/json with the example bytes if FALLBACK_MODE is
\* openapi_examples and TryGetExampleBody succeeds, and 501 in every other
\* case.
C16_FallbackOr501 ==
    (HandleRouted /\ ~ValidationRejects /\ call.load.err) =>
        IF cfg.FallbackMode = "openapi_examples" /\ cfg.OpDeclared /\ cfg.HasResponses
        THEN call.out = [status |-> 200, contentType |-> "application/json",
                         body |-> "example"]
        ELSE call.out.status = 501

\* C16 witness: an example is obtainable, the fallback mode is none, and the
\* failed resolve was answered 501
C16_Witness ==
    /\ HandleRouted /\ ~ValidationRejects /\ call.load.err
    /\ cfg.FallbackMode = "none"
    /\ cfg.OpDeclared /\ cfg.HasResponses
    /\ call.out.status = 501

\* C17 as stated: a routed request is answered 400 exactly when validation
\* is required, the operation requires a body and the body is empty after
\* trimming or unreadable.
C17_Only400IsValidation ==
    HandleRouted => (call.out.status = 400 <=> ValidationRejects)

\* C17: with validation mode required a routed request is turned away with
\* the 400 Bad Request answer iff the matched operation declares a required
\* request body and the body is empty after trimming (or cannot be read);
\* every other routed request answered 400 got the status of its sample.
C17_ValidationRejects ==
    HandleRouted =>
        /\ ValidationRejects <=> call.out = WriteJSON(400, "Bad Request")
        /\ (call.out.status = 400 /\ ~ValidationRejects) =>
              (~call.load.err /\ call.load.status = 400 /\ call.out.body = call.load.body)

\* C17 witness: validation is required and a body of white space only was
\* turned away
C17_Witness ==
    /\ HandleRouted
    /\ cfg.ValidationMode = "required"
    /\ call.body = [kind |-> "bytes", text |-> " "]
    /\ call.out = WriteJSON(400, "Bad Request")

\* the non-empty segments of a template
TemplateSegments(tpl) == SelectSeq(Split(tpl), LAMBDA p : p # <<>>)

\* the positions of the routes of the observed FindRoute call whose method is
\* the upper-cased request method and whose pattern matches the path
MatchingRoutes ==
    {i \in 1..Len(cfg.Routes) :
        /\ cfg.Routes[i].Method = ToUpper(call.method)
        /\ MatchString(swaggerPathToRegex(cfg.Routes[i].Swagger), call.path)}

\* 10 per literal segment plus 1 per segment
SpecificityOf(tpl) ==
    LET ts == TemplateSegments(tpl)
    IN 10 * Cardinality({i \in 1..Len(ts) : ~IsBraced(ts[i])}) + Len(ts)

\* C18: FindRoute returns nil iff no route with the upper-cased method has a
\* pattern matching the path; otherwise it returns a matching route of
\* maximal specificity score, the earliest in the route list among those.
C18_MostSpecificEarliest ==
    call.op = "FindRoute" =>
        /\ call.out = 0 <=> MatchingRoutes = {}
        /\ call.out # 0 =>
              /\ call.out \in MatchingRoutes
              /\ \A j \in MatchingRoutes :
                    /\ SpecificityOf(cfg.Routes[j].Swagger)
                           <= SpecificityOf(cfg.Routes[call.out].Swagger)
                    /\ SpecificityOf(cfg.Routes[j].Swagger)
                           = SpecificityOf(cfg.Routes[call.out].Swagger)
                       => call.out <= j

\* C18 witness: two routes of equal, maximal score match a lower-case
\* request and the earlier one is returned
C18_Witness ==
    /\ call.op = "FindRoute"
    /\ call.method = "get"
    /\ call.out # 0
    /\ \E j \in MatchingRoutes :
          /\ j > call.out
          /\ SpecificityOf(cfg.Routes[j].Swagger)
                 = SpecificityOf(cfg.Routes[call.out].Swagger)

\* the segments of a request path: what follows the leading "/", without a
\* single trailing "/", cut at each "/"
PathSegments(path) ==
    LET rest == Tail(path)
        body == IF rest # <<>> /\ rest[Len(rest)] = "/"
                THEN SubSeq(rest, 1, Len(rest) - 1) ELSE rest
    IN IF body = <<>> THEN <<>> ELSE Split(body)

\* C19: the pattern compiled from a template matches a path iff the path has
\* exactly as many segments as the template, all of them non-empty, each
\* literal segment equal to the path segment at its position and each {name}
\* segment standing for one non-empty component; a single trailing "/" is
\* accepted, a longer or shorter path is rejected.
C19_PatternMatchesSegments ==
    call.op = "MatchString" =>
        LET ts == TemplateSegments(call.tpl)
            ps == PathSegments(call.path)
        IN call.out <=>
              /\ Len(ps) = Len(ts)
              /\ \A i \in 1..Len(ps) :
                    /\ ps[i] # <<>>
                    /\ IsBraced(ts[i]) \/ ps[i] = ts[i]

\* C19 witness: a path with a trailing "/" matched the template /a/{x}
C19_Witness ==
    /\ call.op = "MatchString"
    /\ call.tpl = AXTpl
    /\ call.path = <<"/", "a", "/", "b", "/">>
    /\ call.out

\* the observed descriptor file meets every requirement of a descriptor
DescriptorValid ==
    LET f == call.file
    IN /\ f.readable /\ f.parses
       /\ f.sc.Version = 1
       /\ f.sc.Mode \in {"step", " step ", "time"}
       /\ f.sc.PathParam \in {"id", " id "}
       /\ f.sc.Mode \in {"step", " step "} => f.sc.Sequence # <<>>
       /\ f.sc.Mode = "time" =>
             /\ f.sc.Timeline # <<>>
             /\ \A i, j \in 1..Len(f.sc.Timeline) :
                   i < j => f.sc.Timeline[i].AfterSec <= f.sc.Timeline[j].AfterSec

\* C20: LoadScenario returns a descriptor iff the file is readable JSON with
\* version 1, a mode that is step or time after trimming, a key.pathParam that
\* is non-empty after trimming, for step mode a non-empty sequence and for
\* time mode a non-empty timeline with non-decreasing afterSec; every
\* violation yields an error and no descriptor.
C20_LoadScenarioValidates ==
    call.op = "LoadScenario" =>
        /\ DescriptorValid <=> ~call.out.isNil
        /\ call.out.isNil <=> call.out.err # ""

\* C20 witness: a time descriptor whose two entries share one afterSec and
\* whose pathParam is padded with spaces was returned
C20_Witness ==
    /\ call.op = "LoadScenario"
    /\ call.file.sc.Mode = "time"
    /\ call.file.sc.PathParam = " id "
    /\ Len(call.file.sc.Timeline) = TimeLen
    /\ \A i \in 1..TimeLen : call.file.sc.Timeline[i].AfterSec = 1
    /\ ~call.out.isNil

\* the observed call loaded an envelope
LoadedEnvelope ==
    /\ call.op \in {"loadFile", "reload"}
    /\ call.file.readable /\ call.file.raw # ""
    /\ call.file.obj /\ call.file.looks /\ call.file.decodes

\* the header names of the observed envelope that are content-type in some
\* letter case
DeclaredContentTypes ==
    DOMAIN call.file.env.Headers \cap {"content-type", "Content-Type", "CONTENT-TYPE"}

\* C21: loading an envelope adds the header content-type: application/json
\* iff the envelope declares no header named content-type in any letter case;
\* declared headers are kept unchanged and no second content-type key is
\* added.
C21_ContentTypeInjection ==
    LoadedEnvelope =>
        LET declared == call.file.env.Headers
            got == call.out.Headers
        IN /\ \A n \in DOMAIN declared : n \in DOMAIN got /\ got[n] = declared[n]
           /\ IF DeclaredContentTypes = {}
              THEN /\ DOMAIN got = DOMAIN declared \cup {"content-type"}
                   /\ got["content-type"] = "application/json"
              ELSE DOMAIN got = DOMAIN declared

\* C21 witness: an envelope that declares CONTENT-TYPE beside another header
\* was loaded and its headers came back as declared
C21_Witness ==
    /\ LoadedEnvelope
    /\ call.op = "loadFile"
    /\ DOMAIN call.file.env.Headers = {"CONTENT-TYPE", "X-Trace"}
    /\ call.out.Headers = call.file.env.Headers

\* the file whose response the observed reload stored was loaded as an
\* envelope
StoredFromEnvelope ==
    /\ call.op = "reload"
    /\ call.prev.readable /\ call.prev.raw # ""
    /\ call.prev.obj /\ call.prev.looks /\ call.prev.decodes

DeclaredTwoHundreds ==
    call.resps \cap {"200", "201", "202", "203", "204", "250"}

\* C23: the response picked for an operation is the first present code among
\* 200, 201, 202, 204; else the numerically smallest declared code in
\* [200, 300); else default; else some declared entry; there is no response
\* only when the container is empty.
C23_PickOrder ==
    call.op = "pickBestResponseRef" =>
        LET d == call.resps
            r == call.out
        IN /\ "200" \in d => r = "200"
           /\ ("200" \notin d /\ "201" \in d) => r = "201"
           /\ ({"200", "201"} \cap d = {} /\ "202" \in d) => r = "202"
           /\ ({"200", "201", "202"} \cap d = {} /\ "204" \in d) => r = "204"
           /\ ({"200", "201", "202", "204"} \cap d = {} /\ "203" \in d) => r = "203"
           /\ (DeclaredTwoHundreds = {"250"}) => r = "250"
           /\ (DeclaredTwoHundreds = {} /\ "default" \in d) => r = "default"
           /\ (DeclaredTwoHundreds = {} /\ "default" \notin d /\ d # {}) => r \in d
           /\ r = "nil" <=> d = {}

\* C23 witness: 250 and 203 are declared beside default and 404, none of the
\* preferred codes is, and 203 was picked
C23_Witness ==
    /\ call.op = "pickBestResponseRef"
    /\ call.resps = {"250", "203", "default", "404"}
    /\ call.out = "203"
\* the media types of the observed response, among the three asked for, that
\* declare an example: a single one, or a value under examples
TypesWithExample ==
    {t \in DOMAIN call.picked.content \cap
              {"application/json", "application/problem+json", "*/*"} :
        \/ call.picked.content[t].Example # "none"
        \/ call.picked.content[t].Examples \ {"nil"} # {}}

\* the media types of the observed response, among the three, with a schema
TypesWithSchema ==
    {t \in DOMAIN call.picked.content \cap
              {"application/json", "application/problem+json", "*/*"} :
        call.picked.content[t].Schema}

\* C24: when the picked response declares an example under application/json,
\* application/problem+json or */*, TryGetExampleBody returns a declared
\* example of one of these media types; it returns a schema stub only when
\* none of them declares an example, and {ok:true} only when neither an
\* example nor a schema is available.
C24_ExampleBeforeStub ==
    (call.op = "TryGetExampleBody" /\ call.picked.ref = "value") =>
        /\ TypesWithExample # {} =>
              /\ call.out.kind = "example"
              /\ call.out.from \in TypesWithExample
              /\ call.out.value \in
                     {call.picked.content[call.out.from].Example}
                         \cup call.picked.content[call.out.from].Examples
        /\ call.out.kind = "stub" =>
              (TypesWithExample = {} /\ call.out.from \in TypesWithSchema)
        /\ call.out.kind = "ok" => (TypesWithExample = {} /\ TypesWithSchema = {})

\* C24 witness: application/json has a schema only, */* a value under
\* examples, and that value was returned
C24_Witness ==
    /\ call.op = "TryGetExampleBody"
    /\ call.picked.ref = "value"
    /\ DOMAIN call.picked.content = {"application/json", "*/*"}
    /\ call.picked.content["application/json"]
           = [Example |-> "none", Examples |-> {"nil"}, Schema |-> TRUE]
    /\ call.picked.content["*/*"].Example = "none"
    /\ call.out = [kind |-> "example", from |-> "*/*", value |-> "x2"]

\* C25: boolean environment parsing returns true exactly when the value is 1,
\* true or yes in any letter case and false for every other value of the
\* variable, whatever the default; the default is returned only when the
\* variable is not set.
C25_TruthyOrFalse ==
    call.op = "GetEnvAsBool" =>
        LET v == cfg.Env[call.key]
        IN IF v.set
           THEN call.out <=> v.value \in {"1", "true", "TRUE", "Yes"}
           ELSE call.out = call.defaultVal

\* the worker whose resolveStep the step completes, if any
StepDone(p) == pc[p] = "step" /\ pc'[p] = "idle"

\* some advanceOn rule of sc has the method of the request in flight of p
\* and either no path or a template matching the request's path
AdvanceRuleMatches(p, sc) == matchesAny(sc.AdvanceOn, req[p].method, req[p].path)

\* C26: in step mode a resolve advances the stored index (to the next entry,
\* or as loop / repeatLast say at the end of the sequence) exactly when some
\* behavior.advanceOn rule has the request's method, ignoring case and
\* surrounding blanks, and either no path or a path template matching the
\* request's concrete path; a resolve matching no rule serves the current
\* entry and stores the index it served.
C26_AdvanceIffRuleMatches ==
    [][\A p \in Procs :
          StepDone(p) =>
              LET k == req[p].k
                  sc == ScenarioAt(req[p].tpl)
                  cur == MapGet(stepIndex, k, 0)
                  after == IF cur + 1 < Len(sc.Sequence) THEN cur + 1
                           ELSE IF sc.Loop THEN 0 ELSE Len(sc.Sequence) - 1
              IN /\ hist'[k].idx = cur
                 /\ stepIndex'[k] = IF AdvanceRuleMatches(p, sc) THEN after ELSE cur]_vars

\* C27: resetByMethod holds at most one item per (method, path template,
\* scenario template, key parameter), whatever resolves and resets ran.
C27_OneItemPerTuple ==
    \A m \in DOMAIN resetByMethod :
        \A i, j \in 1..Len(resetByMethod[m]) :
            (/\ resetByMethod[m][i].rule = resetByMethod[m][j].rule
             /\ resetByMethod[m][i].binding = resetByMethod[m][j].binding) => i = j

\* under a descriptor that declares the same reset rule twice: one key was
\* resolved more than once and holds its slot, a resolve of the other key has
\* registered and a reset has deleted its rules since, and DELETE has one item
C27_Witness ==
    /\ Len(cfg.ResetOn) > 1
    /\ "DELETE" \in DOMAIN resetByMethod
    /\ Len(resetByMethod["DELETE"]) = 1
    /\ \E k \in DOMAIN stepIndex : k \in DOMAIN resetRules /\ stepIndex[k] > 1
    /\ \E q \in Procs :
          /\ pc[q] = "step"
          /\ req[q].k \notin DOMAIN resetRules \cup DOMAIN stepIndex

\* behavior.resetOn[i] of the descriptor of tpl as ResolveScenarioFile
\* normalises it
DeclaredReset(tpl, i) ==
    [Method |-> ToUpper(TrimSpace(ScenarioAt(tpl).ResetOn[i].Method)),
     PathTpl |-> TrimSpacePath(ScenarioAt(tpl).ResetOn[i].Path)]

\* C28: once a runtime key has been resolved, every behavior.resetOn entry
\* of its descriptor (method upper-cased, path trimmed, whatever its path)
\* is in resetRules[key] and in resetByMethod[method].
C28_EveryRuleRegistered ==
    \A v \in KeyVals :
        LET k == scenarioRuntimeKey(TStatus, v)
        IN k \in DOMAIN resetRules =>
              \A i \in 1..Len(ScenarioAt(TStatus).ResetOn) :
                  LET rr == DeclaredReset(TStatus, i)
                      list == MapGet(resetByMethod, rr.Method, <<>>)
                  IN /\ \E j \in 1..Len(resetRules[k]) : resetRules[k][j] = rr
                     /\ \E j \in 1..Len(list) :
                           /\ list[j].rule = rr
                           /\ list[j].binding.ScenarioTpl = TStatus
                           /\ list[j].binding.KeyParam = ScenarioAt(TStatus).KeyParam

\* C29: a runtime key that has a step index or a start timestamp has its
\* resetRules entry, in every state, also between the steps of a
\* ResolveScenarioFile in flight.
C29_SlotWhole ==
    \A k \in DOMAIN stepIndex \cup DOMAIN startedAt : k \in DOMAIN resetRules

\* the request has no binding of its method, or its path matches none of the
\* registered templates of its method
NothingToReset(method, actualPath) ==
    LET list == MapGet(resetByMethod, ToUpper(method), <<>>)
    IN \A i \in 1..Len(list) :
          ~matchTemplatePathSuffix(list[i].rule.PathTpl, actualPath)

\* C30: a TryResetByRequest whose method has no registered binding, or whose
\* path matches no registered reset template of that method, returns false
\* and leaves stepIndex, startedAt, resetRules and resetByMethod unchanged.
C30_NoMatchNoEffect ==
    [][(/\ pc' = pc
        /\ call'.op = "TryResetByRequest"
        /\ NothingToReset(call'.method, call'.path))
          => /\ ~call'.out
             /\ UNCHANGED <<stepIndex, startedAt, resetRules, resetByMethod>>]_vars

\* a reset of a method with a binding was observed with a path that matches
\* no registered template, and the slot of an advanced key is in place
C30_Witness ==
    /\ call.op = "TryResetByRequest"
    /\ call.method = "DELETE"
    /\ ~call.out
    /\ resetByMethod # EmptyMap
    /\ "DELETE" \in DOMAIN resetByMethod
    /\ NothingToReset(call.method, call.path)
    /\ \E k \in DOMAIN stepIndex : stepIndex[k] > 0

\* the positions of the events of kind ev among the calls of the observed
\* ResolvePath
EventsOf(ev) == {i \in 1..Len(call.events) : call.events[i].ev = ev}

\* the positions of the FileExists calls on a folder / flat candidate
CandidateChecks ==
    {i \in EventsOf("FileExists") :
        call.events[i].path # ScenarioPathForSwagger(call.tpl, ScenarioFilename)}

\* C31: ResolvePath calls TryResetByRequest(method, concretePath) exactly
\* once, before every check of a folder / flat candidate, and goes on to the
\* candidates, when scenarios are enabled, an engine is set and the matched
\* template has no descriptor; in every other case it does not call it.
C31_ResetOnceBeforeCandidates ==
    call.op = "ResolvePath" =>
        LET resets == EventsOf("TryResetByRequest")
        IN IF /\ cfg.ScenarioEnabled
              /\ cfg.EngineSet
              /\ ~FileExists(ScenarioPathForSwagger(call.tpl, ScenarioFilename))
           THEN /\ Cardinality(resets) = 1
                /\ \A i \in resets :
                      /\ call.events[i].method = ToUpper(call.method)
                      /\ call.events[i].path = call.path
                      /\ \A j \in CandidateChecks : i < j
                /\ call.out = CandidateResult(ToUpper(call.method), call.tpl,
                                              swaggerPathToSampleName(call.method))
           ELSE resets = {}

\* a request in lower case of a deployment without a descriptor was reset
\* and then served from the second candidate
C31_Witness ==
    /\ call.op = "ResolvePath"
    /\ call.method = "get"
    /\ EventsOf("TryResetByRequest") # {}
    /\ Cardinality(CandidateChecks) = 2
    /\ call.out.err = ""

\* the observed request was answered by the dispatcher itself: by a health
\* endpoint, with 404 for want of a route, or with 400 by the validation
AnsweredByDispatcher(c) ==
    /\ c.op = "handle"
    /\ \/ c.method = "GET" /\ c.path \in HealthPaths
       \/ c.out = WriteJSON(404, "No route")
       \/ c.out = WriteJSON(400, "Bad Request")

\* C32: a request answered from a health endpoint, with 404 (no route) or
\* with 400 (required body empty or unreadable) does not reach the sample
\* provider: it advances no step, starts no timer, registers no reset rule
\* and applies no reset.
C32_RejectedLeavesResolver ==
    [][((\A q \in Procs : pc[q] = "idle") /\ AnsweredByDispatcher(call'))
          => UNCHANGED <<stepIndex, startedAt, resetRules, resetByMethod, pc, req>>]_vars

\* a DELETE of the reset route was turned away with 400 while the slot of
\* its key had advanced
C32_Witness ==
    /\ call.op = "handle"
    /\ call.method = "DELETE"
    /\ call.out = WriteJSON(400, "Bad Request")
    /\ call.path = Concrete(TScan, "1")
    /\ scenarioRuntimeKey(TStatus, "1") \in DOMAIN stepIndex
    /\ stepIndex[scenarioRuntimeKey(TStatus, "1")] > 0

\* the arguments of the observed ResolveScenarioFile call yield no key: the
\* template and the path differ in segment count, or the template has no
\* parameter named key.pathParam, or the path is blank at its position
NoKey(c) ==
    \/ Len(c.tpl) # Len(c.path)
    \/ \A i \in 1..Len(c.tpl) : c.tpl[i] # "{id}" \/ c.want # "id"
    \/ \E i \in 1..Len(c.tpl) : c.tpl[i] = "{id}" /\ c.path[i] \in {"", " "}

\* C33: ResolveScenarioFile fails with the key-extraction error when the
\* template and the concrete path differ in segment count, when the
\* template has no parameter named key.pathParam, or when the extracted
\* value is blank (and only then); on this failure stepIndex, startedAt,
\* resetRules and resetByMethod are unchanged.
C33_KeyErrorLeavesState ==
    [][(call'.op = "ResolveScenarioFile" /\ ~(\E p \in Procs : StepDone(p)))
          => /\ call'.err = NoKey(call')
             /\ call'.err =>
                   UNCHANGED <<stepIndex, startedAt, resetRules, resetByMethod, pc>>]_vars

\* a call with a blank key value failed while the slot of another key
\* was in place
C33_Witness ==
    /\ call.op = "ResolveScenarioFile"
    /\ call.err
    /\ call.want = "id"
    /\ call.path = Concrete(TStatus, " ")
    /\ \E k \in DOMAIN stepIndex : stepIndex[k] > 0 /\ k \in DOMAIN resetRules
    /\ resetByMethod # EmptyMap

Following(idx) ==
    IF idx + 1 < SeqLen THEN idx + 1
    ELSE IF cfg.Loop THEN 0 ELSE SeqLen - 1

\* C35: when the resolver selects a file that is not in the scenario
\* folder, ResolvePath returns "scenario file not found" and the advance of
\* that resolve stays: the next resolve of the same key serves the following
\* entry.
C35_MissingFileKeepsAdvance ==
    call.op = "ResolvePathStep" =>
        /\ (Sequence[call.idx + 1].File \notin cfg.Present
               => call.out.err = "scenario file not found")
        /\ (/\ call.before.k = call.k
            /\ call.before.err = "scenario file not found"
            /\ call.before.adv)
              => call.idx = Following(call.before.idx)

\* two resolves of one key in a row: the first chose a missing file and got
\* the error, the second was served the next entry, whose file exists
C35_Witness ==
    /\ call.op = "ResolvePathStep"
    /\ call.before.k = call.k
    /\ call.before.err = "scenario file not found"
    /\ call.before.adv
    /\ call.before.idx = 0
    /\ call.idx = 1
    /\ call.out.err = ""

\* the runtime keys that lose their step index, start timestamp or reset
\* rules in the step
Deleted ==
    ((DOMAIN stepIndex) \ DOMAIN stepIndex')
        \cup ((DOMAIN startedAt) \ DOMAIN startedAt')
        \cup ((DOMAIN resetRules) \ DOMAIN resetRules')

\* C36: TryResetByRequest deletes the slot of a key only through a binding
\* whose rule template has a parameter segment named like the scenario's
\* key.pathParam, the key value being the request path segment at that
\* position; a rule that names the parameter differently or has no
\* parameter resets nothing.
C36_ResetNeedsKeyParam ==
    [][(call'.op = "TryResetByRequest" /\ ~(\E p \in Procs : StepDone(p)))
          => \A k \in Deleted :
                \E m \in DOMAIN resetByMethod :
                   \E j \in 1..Len(resetByMethod[m]) :
                      LET it == resetByMethod[m][j]
                      IN /\ m = call'.method
                         /\ Len(it.rule.PathTpl) = Len(call'.path)
                         /\ \E i \in 1..Len(it.rule.PathTpl) :
                               /\ it.rule.PathTpl[i] = "{id}"
                               /\ it.binding.KeyParam = "id"
                               /\ k = scenarioRuntimeKey(it.binding.ScenarioTpl,
                                                         call'.path[i])]_vars

\* under the descriptor that declares both rules a reset deleted the slot of
\* its key and left the advanced slot of the other key
C36_Witness ==
    /\ Len(cfg.ResetOn) = 2
    /\ call.op = "TryResetByRequest"
    /\ call.out
    /\ scenarioRuntimeKey(TStatus, call.path[2]) \notin DOMAIN stepIndex
    /\ \E k \in DOMAIN stepIndex : stepIndex[k] > 0

\* the runtime key has no step index, start timestamp or reset rules after
\* the step
SlotGone(k) ==
    /\ k \notin DOMAIN stepIndex'
    /\ k \notin DOMAIN startedAt'
    /\ k \notin DOMAIN resetRules'

\* the step leaves the slot of the runtime key as it is
SlotKept(k) ==
    /\ k \in DOMAIN stepIndex <=> k \in DOMAIN stepIndex'
    /\ k \in DOMAIN stepIndex => stepIndex'[k] = stepIndex[k]
    /\ k \in DOMAIN startedAt <=> k \in DOMAIN startedAt'
    /\ k \in DOMAIN startedAt => startedAt'[k] = startedAt[k]
    /\ k \in DOMAIN resetRules <=> k \in DOMAIN resetRules'

\* C37: one TryResetByRequest call resets every scenario that registered a
\* binding the request matches: the slot of the request's key value is
\* deleted in each of them, and the slots of other key values are untouched.
C37_ResetsEveryBinding ==
    [][(call'.op = "TryResetByRequest" /\ pc' = pc)
          => \A k \in AllKeys :
                IF k \in Addressed(call'.method, call'.path)
                THEN SlotGone(k) ELSE SlotKept(k)]_vars

\* C38: while the resolver lock is held only the runtime maps are read and
\* written (and the clock is read for a new start timestamp): no logging,
\* no file access, no other blocking work; here for the critical section a
\* worker waiting for resolveStep is about to run.
C38_OnlyMapsUnderLock ==
    \A p \in Procs : pc[p] = "step" => StepLockedWork(p) \subseteq {"map", "clock"}

\* C39: stub generation terminates on every schema graph, self-referential
\* ones included: each nested call has the depth of its caller plus one, a
\* call at a depth above 6 returns {} and calls nothing, so no path of
\* nested calls goes below the seventh.
C39_DepthCapped ==
    call.op = "genFromSchemaRef" =>
        /\ call.depth = call.nested
        /\ call.nested <= GenDepthCap + 1
        /\ call.depth > GenDepthCap => (call.out = "{}" /\ ~ENABLED GenDescend)

\* on a graph whose schema A is an object with itself as a property the
\* generation reached the seventh nested call, which returned {}
C39_Witness ==
    /\ cfg.Graph["A"] = [kind |-> "object", next |-> "A"]
    /\ call.op = "genFromSchemaRef"
    /\ call.ref = "A"
    /\ call.nested = GenDepthCap + 1
    /\ call.out = "{}"

\* C40: spec-example resolution is deterministic: for a fixed document a
\* call can return one result only, also when the chosen media type has
\* several named examples or the responses hold several codes that are
\* neither 2xx nor default; the observed result is the only possible one.
C40_OneResultPerSpec ==
    /\ call.op = "TryGetExampleBody" => ExampleBodies(call.picked) = {call.out}
    /\ call.op = "pickBestResponseRef" => pickBestResponseRef(call.resps) = {call.out}
====
